---- MODULE Spec2Model ----
(***************************************************************************)
(* Model of the persistent configuration core of HAIoT_SmartMeter:         *)
(*   sys_serial_utils.h  promptAndReadLine                                 *)
(*   sys_crypto.h        base64 helpers, deriveHardwareKey, encryptSecret, *)
(*                       decryptSecret                                     *)
(*   sys_config.h        loadConfig                                        *)
(*                                                                         *)
(* Strings are sequences of character codes, buffers are sequences of      *)
(* bytes (0..255).  The two builds of the code (#ifdef ARDUINO_ARCH_ESP32  *)
(* and #ifdef ARDUINO_ARCH_SAMD) are both modelled; the variable platform  *)
(* says which one runs.  The library primitives that are not part of the   *)
(* repository are modelled by their contract: SHA-256 as a 32-byte keyed   *)
(* mixing of the message, the AES block cipher as a keyed byte             *)
(* permutation and the XOR of CBC chaining as addition modulo 256 (both    *)
(* invertible, as the originals are).                                      *)
(***************************************************************************)
EXTENDS Integers, Sequences, FiniteSets, TLC

----------------------------------------------------------------------------
(* Bounds of the model *)

\* number of loadConfig calls made on the parameter in one run
MaxCalls == 2
\* the prompt counter of one call saturates here
MaxPrompts == 3
\* restarts the model follows
MaxBoots == 2
\* longest plaintext handed to encryptSecret in the codec specification
MaxPlainLen == 33
\* longest byte sequence handed to base64_encode on its own
MaxDataLen == 4
\* the counters of getString and putString calls under a namespace
\* saturate here
MaxNsCalls == 7

----------------------------------------------------------------------------
(* Strings *)

EmptyStr == << >>

\* "p1:"
HEADER_PLAIN_V1 == <<112, 49, 58>>
\* "s1:"
HEADER_SECRET_V1 == <<115, 49, 58>>

\* String::startsWith
startsWith(s, prefix) ==
    /\ Len(s) >= Len(prefix)
    /\ SubSeq(s, 1, Len(prefix)) = prefix

\* String::substring(from)
substring(s, from) == SubSeq(s, from + 1, Len(s))

\* String(const char*): the bytes up to the first NUL
CString(bytes) ==
    LET nul == {k \in 1..Len(bytes) : bytes[k] = 0} IN
    IF nul = {} THEN bytes
    ELSE SubSeq(bytes, 1, (CHOOSE k \in nul : \A m \in nul : k <= m) - 1)

----------------------------------------------------------------------------
(* Base64 *)

BLOCK == 16
EQUALS == 61

b64_table ==
  << 65, 66, 67, 68, 69, 70, 71, 72, 73, 74, 75, 76, 77, 78, 79, 80,
     81, 82, 83, 84, 85, 86, 87, 88, 89, 90, 97, 98, 99, 100, 101, 102,
     103, 104, 105, 106, 107, 108, 109, 110, 111, 112, 113, 114, 115, 116, 117, 118,
     119, 120, 121, 122, 48, 49, 50, 51, 52, 53, 54, 55, 56, 57, 43, 47 >>

\* the position of every character code in b64_table, or -1
b64_pos ==
    [c \in 0..255 |->
        IF \E k \in 1..64 : b64_table[k] = c
        THEN (CHOOSE k \in 1..64 : b64_table[k] = c) - 1
        ELSE -1]

\* strchr(b64_table, c) - b64_table, or -1 when strchr returns NULL
b64_index(c) == b64_pos[c]

\* one pass of the loop of base64_encode (SAMD build), entered with index i
\* (0-based): the four characters it appends
base64_encode_step(data, i) ==
    LET len == Len(data)
        b0 == data[i + 1] * 65536
        i1 == i + 1
        b1 == IF i1 < len THEN b0 + data[i1 + 1] * 256 ELSE b0
        i2 == IF i1 < len THEN i1 + 1 ELSE i1
        b2 == IF i2 < len THEN b1 + data[i2 + 1] ELSE b1
        i3 == IF i2 < len THEN i2 + 1 ELSE i2
        c1 == b64_table[((b2 \div 262144) % 64) + 1]
        c2 == b64_table[((b2 \div 4096) % 64) + 1]
        c3 == IF i3 > len + 1 THEN EQUALS
              ELSE b64_table[((b2 \div 64) % 64) + 1]
        c4 == IF i3 > len THEN EQUALS
              ELSE b64_table[(b2 % 64) + 1]
    IN <<c1, c2, c3, c4>>

\* base64_encode: the loop runs while i < len and every pass but the last
\* advances i by three, so pass number p (from 0) is entered with i = 3p and
\* the output is the characters of the passes in order
base64_encode(data) ==
    LET passes == (Len(data) + 2) \div 3 IN
    [k \in 1..(4 * passes) |->
        base64_encode_step(data, 3 * ((k - 1) \div 4))[((k - 1) % 4) + 1]]

\* 1 << k, for the shifts base64_decode makes (0, 2 or 4)
Pow2(k) == IF k = 0 THEN 1 ELSE IF k = 2 THEN 4 ELSE 16

\* the characters the loop of base64_decode (SAMD build) consumes: it leaves
\* at the first '=' and skips every character strchr does not find
base64_decode_sextets(in) ==
    LET eq == {k \in 1..Len(in) : in[k] = EQUALS}
        stop == IF eq = {} THEN Len(in) + 1
                ELSE CHOOSE k \in eq : \A m \in eq : k <= m
        read == SelectSeq(SubSeq(in, 1, stop - 1),
                          LAMBDA c : b64_index(c) # -1)
    IN [t \in 1..Len(read) |-> b64_index(read[t])]

\* base64_decode of the SAMD build.  bits starts at -8 and gains 6 with
\* every sextet; a byte (b >> bits) & 0xFF is written, and bits loses 8,
\* whenever bits >= 0: no byte on the first sextet of every four, then one
\* byte per sextet with bits = 4, 2 and 0.  The byte takes bits
\* bits..bits+7 of the accumulator b = (b << 6) | p, which lie in its last
\* two sextets
base64_decode(in) ==
    LET p == base64_decode_sextets(in)
        n == (6 * Len(p)) \div 8
    IN [j \in 1..n |->
           LET t == 4 * ((j - 1) \div 3) + ((j - 1) % 3) + 2
               bits == 4 - 2 * ((j - 1) % 3)
               b == p[t - 1] * 64 + p[t]
           IN (b \div Pow2(bits)) % 256]

\* one group of mbedtls_base64_encode: up to three bytes, from index i
\* (1-based), to four characters
mbedtls_base64_encode_group(data, i) ==
    LET n == Len(data) - i + 1
        x0 == data[i]
        x1 == IF n >= 2 THEN data[i + 1] ELSE 0
        x2 == IF n >= 3 THEN data[i + 2] ELSE 0
        b == x0 * 65536 + x1 * 256 + x2
        c1 == b64_table[((b \div 262144) % 64) + 1]
        c2 == b64_table[((b \div 4096) % 64) + 1]
        c3 == IF n >= 2 THEN b64_table[((b \div 64) % 64) + 1] ELSE EQUALS
        c4 == IF n >= 3 THEN b64_table[(b % 64) + 1] ELSE EQUALS
    IN <<c1, c2, c3, c4>>

\* mbedtls_base64_encode (ESP32 build): RFC 4648 with '=' padding
mbedtls_base64_encode(data) ==
    LET groups == (Len(data) + 2) \div 3 IN
    [k \in 1..(4 * groups) |->
        mbedtls_base64_encode_group(data, 3 * ((k - 1) \div 4) + 1)
            [((k - 1) % 4) + 1]]

\* mbedtls_base64_decode accepts only alphabet characters followed by at most
\* two '=' (the model's strings hold no line breaks)
mbedtls_base64_valid(in) ==
    LET eq == {k \in 1..Len(in) : in[k] = EQUALS} IN
    /\ \A k \in 1..Len(in) : in[k] = EQUALS \/ b64_index(in[k]) # -1
    /\ Cardinality(eq) <= 2
    /\ \A k \in eq : \A m \in (k + 1)..Len(in) : m \in eq

\* the three bytes mbedtls_base64_decode reads from the group of four
\* characters that starts at index i (1-based), '=' counting as zero
mbedtls_base64_decode_group(in, i) ==
    LET v(k) == IF in[k] = EQUALS THEN 0 ELSE b64_index(in[k])
        x == v(i) * 262144 + v(i + 1) * 4096 + v(i + 2) * 64 + v(i + 3)
    IN <<(x \div 65536) % 256, (x \div 256) % 256, x % 256>>

\* the bytes mbedtls_base64_decode writes for a valid input: three per
\* complete group of four characters, less one per '='
mbedtls_base64_bytes(in) ==
    LET groups == Len(in) \div 4
        pads == Cardinality({k \in 1..(4 * groups) : in[k] = EQUALS})
        n == IF groups = 0 THEN 0 ELSE 3 * groups - pads
    IN [k \in 1..n |->
           mbedtls_base64_decode_group(in, 4 * ((k - 1) \div 3) + 1)
               [((k - 1) % 3) + 1]]

\* mbedtls_base64_decode: [ok, bytes]
mbedtls_base64_decode(in) ==
    IF mbedtls_base64_valid(in)
    THEN [ok |-> TRUE, bytes |-> mbedtls_base64_bytes(in)]
    ELSE [ok |-> FALSE, bytes |-> << >>]

----------------------------------------------------------------------------
(* Key derivation: sys_crypto.h, deriveHardwareKey *)

Platforms == {"ESP32", "SAMD"}

\* "HAIoT_SALT"
HAIoT_SALT == <<72, 65, 73, 111, 84, 95, 83, 65, 76, 84>>

\* the 9-byte serial number ECCX08.serialNumber() reads on this device
SerialNumber == <<1, 35, 17, 34, 51, 68, 85, 102, 238>>
\* the bytes of ESP.getEfuseMac() on this device (uint64_t, little endian)
EfuseMac == <<36, 10, 196, 18, 52, 86, 0, 0>>
\* the bytes of the fixed chipID 0xDEADBEEFCAFEBABE (little endian)
GenericChipID == <<190, 186, 254, 202, 239, 190, 173, 222>>

\* uint8_t derivedAESKey[32] before any derivation: static storage, all zero
ZeroKey == [i \in 1..32 |-> 0]

RECURSIVE WeightedSum(_, _, _)
WeightedSum(msg, j, i) ==
    IF j > Len(msg) THEN 0
    ELSE (msg[j] * (i + j) + WeightedSum(msg, j + 1, i)) % 256

\* SHA-256 of msg: a 32-byte digest that depends on every byte of msg
Sha256(msg) == [i \in 1..32 |-> (WeightedSum(msg, 1, i) + i) % 256]

\* the identity hashed by deriveHardwareKey: the secure element's serial
\* number on SAMD when ECCX08.begin() and serialNumber() both succeed,
\* otherwise the chip ID of the fallback branch
HardwareIdentity(plat, eccOk) ==
    IF plat = "SAMD" /\ eccOk THEN SerialNumber
    ELSE IF plat = "ESP32" THEN EfuseMac
    ELSE GenericChipID

\* the digest deriveHardwareKey computes, by build and by whether the
\* secure element answers
HardwareKey ==
    [plat \in Platforms, eccOk \in BOOLEAN |->
        Sha256(HardwareIdentity(plat, eccOk) \o HAIoT_SALT)]

\* a derivation that does not look at keyInitialized
deriveHardwareKey_Recompute(plat, inited, key, eccOk) ==
    HardwareKey[plat, eccOk]

\* derivedAESKey after deriveHardwareKey() has run
deriveHardwareKey(plat, inited, key, eccOk) ==
    IF inited THEN key ELSE HardwareKey[plat, eccOk]

\* the local hardwareCryptoSuccess of the deriveHardwareKey() run that made
\* the key: was is its value at the run that made the present key
deriveHardwareCryptoSuccess(plat, inited, was, eccOk) ==
    IF inited THEN was ELSE plat = "SAMD" /\ eccOk

\* a derivation that reports failure when the secure element of the SAMD
\* build does not answer
deriveHardwareKeyReturns_NeedsChip(plat, inited, eccOk) ==
    inited \/ plat = "ESP32" \/ eccOk

\* the value deriveHardwareKey() returns
deriveHardwareKeyReturns(plat, inited, eccOk) == TRUE

----------------------------------------------------------------------------
(* AES-256-CBC: sys_crypto.h, encryptSecret and decryptSecret *)

\* the block cipher on the byte at position i of its block
AesEncByte(key, i, x) == (x + key[i] + key[i + BLOCK]) % 256
AesDecByte(key, i, y) == (y + 512 - key[i] - key[i + BLOCK]) % 256

\* the chaining operation of CBC and its inverse
Mix(a, b) == (a + b) % 256
Unmix(c, b) == (c + 256 - b) % 256

PosInBlock(i) == ((i - 1) % BLOCK) + 1

\* CBC encryption of the blocks lo..hi of data; prev is the ciphertext block
\* before block lo, the iv for the first block
RECURSIVE CbcEncryptBlocks(_, _, _, _, _)
CbcEncryptBlocks(key, prev, data, lo, hi) ==
    IF lo = hi
    THEN [i \in 1..BLOCK |->
             AesEncByte(key, i, Mix(data[(lo - 1) * BLOCK + i], prev[i]))]
    ELSE LET mid == (lo + hi) \div 2
             left == CbcEncryptBlocks(key, prev, data, lo, mid)
         IN left \o CbcEncryptBlocks(key,
                        SubSeq(left, Len(left) - BLOCK + 1, Len(left)),
                        data, mid + 1, hi)

\* CBC encryption of data (whole blocks) under key and iv
CbcEncrypt(key, iv, data) ==
    IF Len(data) = 0 THEN << >>
    ELSE CbcEncryptBlocks(key, iv, data, 1, Len(data) \div BLOCK)

\* CBC decryption of data under key and iv
CbcDecrypt(key, iv, data) ==
    [i \in 1..Len(data) |->
        Unmix(AesDecByte(key, PosInBlock(i), data[i]),
              IF i <= BLOCK THEN iv[i] ELSE data[i - BLOCK])]

\* a stack buffer of n bytes that was never written: its contents are
\* whatever the stack held, here n copies of the byte fill
Uninitialized(n, fill) == [i \in 1..n |-> fill]

\* the number of bytes of the buffer br_aes_ct_cbcdec_run(ctx, iv, data, len)
\* rewrites: two blocks per round while len >= 32, then one last block
cbcdec_run_len(len) ==
    LET r == len % 32 IN (len - r) + (IF r > BLOCK THEN BLOCK ELSE r)

\* a padded length that only rounds up to the next block boundary
paddedLen_RoundUp(len) == ((len + BLOCK - 1) \div BLOCK) * BLOCK

\* PKCS7 padding of encryptSecret
paddedLen(len) == ((len \div BLOCK) + 1) * BLOCK
Pkcs7(plaintext) ==
    LET len == Len(plaintext) IN
    [i \in 1..paddedLen(len) |->
        IF i <= len THEN plaintext[i] ELSE paddedLen(len) - len]

\* encryptSecret(plaintext) with the derived key, the random iv and, on the
\* SAMD build, the contents found in the never-written output buffer, which
\* br_aes_ct_cbcenc_run encrypts in place
encryptSecret(plat, key, plaintext, iv, fill) ==
    LET input == Pkcs7(plaintext)
        output == IF plat = "ESP32"
                  THEN CbcEncrypt(key, iv, input)
                  ELSE CbcEncrypt(key, iv, Uninitialized(Len(input), fill))
        finalPayload == iv \o output
    IN IF plat = "ESP32"
       THEN mbedtls_base64_encode(finalPayload)
       ELSE base64_encode(finalPayload)

\* the tail of decryptSecret: padding check and strip on the decrypted bytes
StripPadding(base64Data, output) ==
    LET dataLen == Len(output)
        padding == output[dataLen]
    IN IF padding > BLOCK \/ padding = 0 THEN base64Data
       ELSE CString(SubSeq(output, 1, dataLen - padding))

\* decryptSecret(base64Data) with the derived key; on the SAMD build the
\* output buffer is never loaded with the ciphertext, so
\* br_aes_ct_cbcdec_run decrypts in place whatever the stack held
decryptSecret(plat, key, base64Data, fill) ==
    IF plat = "ESP32"
    THEN LET dec == mbedtls_base64_decode(base64Data)
             payload == dec.bytes
             decodedLen == Len(payload)
         IN IF ~dec.ok THEN base64Data
            ELSE IF decodedLen < BLOCK + BLOCK THEN base64Data
            ELSE IF (decodedLen - BLOCK) % BLOCK # 0 THEN base64Data
            ELSE StripPadding(base64Data,
                     CbcDecrypt(key, SubSeq(payload, 1, BLOCK),
                                SubSeq(payload, BLOCK + 1, decodedLen)))
    ELSE LET payload == base64_decode(base64Data)
             decodedLen == Len(payload)
             dataLen == decodedLen - BLOCK
             run == cbcdec_run_len(dataLen)
             stack == Uninitialized(dataLen, fill)
         IN IF decodedLen = 0 THEN base64Data
            ELSE IF decodedLen < BLOCK + BLOCK THEN base64Data
            ELSE StripPadding(base64Data,
                     CbcDecrypt(key, SubSeq(payload, 1, BLOCK),
                                SubSeq(stack, 1, run))
                     \o SubSeq(stack, run + 1, dataLen))

----------------------------------------------------------------------------
(* Interactive input: sys_serial_utils.h *)

CR == 13

\* readLine(): the characters typed before the newline, carriage returns
\* dropped
readLine(typed) == SelectSeq(typed, LAMBDA c : c # CR)

\* promptAndReadLine(prompt, defaultValue) when the operator types `typed`
\* and a newline
promptAndReadLine(typed, defaultValue) ==
    LET s == readLine(typed) IN
    IF Len(s) = 0 THEN defaultValue ELSE s

\* '\n', the character that ends readLine
LF == 10

\* a readLine that keeps the carriage return
readLineStep_KeepsCR(ln, c) == Append(ln, c)

\* String line after one round of the readLine loop has read c, c not '\n'
readLineStep(ln, c) == IF c = CR THEN ln ELSE Append(ln, c)

\* what promptAndReadLine returns once readLine has returned s
promptAndReadLineResult(s, defaultValue) ==
    IF Len(s) = 0 THEN defaultValue ELSE s

----------------------------------------------------------------------------
(* Persistent backend: the Preferences object used by sys_config.h *)

\* the Preferences keys of the ConfigParam table
GeneralKeys == {"dvc_id", "dvc_manuf", "dvc_model", "tz", "mqtt_broker_ip"}
SecretKeys == {"s_wifi_ssid", "s_wifi_pwd", "s_mqtt_user", "s_mqtt_pwd",
               "s_mqtt_ca"}
Keys == GeneralKeys \cup SecretKeys

Absent == [present |-> FALSE, val |-> EmptyStr]
Stored(s) == [present |-> TRUE, val |-> s]

\* preferences.getString(key, "")
getString(store, key) ==
    IF store[key].present THEN store[key].val ELSE EmptyStr

\* a putString that drops what else the namespace holds
putString_ClearsOthers(store, key, valueToSave) ==
    [k \in DOMAIN store |->
        IF k = key THEN Stored(valueToSave) ELSE Absent]

\* preferences.putString(key, valueToSave)
putString(store, key, valueToSave) ==
    [store EXCEPT ![key] = Stored(valueToSave)]

----------------------------------------------------------------------------
(* loadConfig: sys_config.h *)

\* a step 1 that never asks for a save when no value is found in flash
Classify_AbsentNotSaved(plat, key, rawValue, defaultValue, isSecret, fill) ==
    IF rawValue = EmptyStr
    THEN [value |-> defaultValue, migrationNeeded |-> FALSE]
    ELSE IF startsWith(rawValue, HEADER_SECRET_V1)
    THEN [value |-> decryptSecret(plat, key,
                        substring(rawValue, Len(HEADER_SECRET_V1)), fill),
          migrationNeeded |-> ~isSecret]
    ELSE IF startsWith(rawValue, HEADER_PLAIN_V1)
    THEN [value |-> substring(rawValue, Len(HEADER_PLAIN_V1)),
          migrationNeeded |-> isSecret]
    ELSE [value |-> rawValue, migrationNeeded |-> TRUE]

\* step 1 of loadConfig: detect the format of rawValue and extract the value
Classify(plat, key, rawValue, defaultValue, isSecret, fill) ==
    IF rawValue = EmptyStr
    THEN [value |-> defaultValue, migrationNeeded |-> defaultValue # EmptyStr]
    ELSE IF startsWith(rawValue, HEADER_SECRET_V1)
    THEN [value |-> decryptSecret(plat, key,
                        substring(rawValue, Len(HEADER_SECRET_V1)), fill),
          migrationNeeded |-> ~isSecret]
    ELSE IF startsWith(rawValue, HEADER_PLAIN_V1)
    THEN [value |-> substring(rawValue, Len(HEADER_PLAIN_V1)),
          migrationNeeded |-> isSecret]
    ELSE [value |-> rawValue, migrationNeeded |-> TRUE]

\* does step 1 call decryptSecret (and with it deriveHardwareKey)?
ClassifyDecrypts(rawValue) ==
    rawValue # EmptyStr /\ startsWith(rawValue, HEADER_SECRET_V1)

\* the overload taking a ConfigParam: the force handed on to loadConfig
doForce_IgnoresConfigurable(force, isConfigurable) == force

doForce(force, isConfigurable) == force /\ isConfigurable

\* ForceClear with the test of force lost: the value is always set aside
ForceClear_Always(force, value, defaultValue) ==
    [value |-> EmptyStr, defaultValue |-> value]

\* if (force) { defaultValue = value; value = ""; }
ForceClear(force, value, defaultValue) ==
    IF force THEN [value |-> EmptyStr, defaultValue |-> value]
    ELSE [value |-> value, defaultValue |-> defaultValue]

\* KeepAsking with the mandatory test lost: any answer ends the loop
KeepAsking_AcceptsEmpty(mandatory, value) == FALSE
KeepAsking_WhileEmpty(mandatory, value) == value = EmptyStr

\* the test that keeps the prompt loop asking
KeepAsking(mandatory, value) == mandatory /\ value = EmptyStr

\* does step 2 call encryptSecret?
SaveEncrypts(isSecret, value) == isSecret /\ value # EmptyStr

\* a save that keeps the legacy form for what is not secret
ValueToSave_Untagged(plat, key, isSecret, value, iv, fill) ==
    IF SaveEncrypts(isSecret, value)
    THEN HEADER_SECRET_V1 \o encryptSecret(plat, key, value, iv, fill)
    ELSE value

\* ValueToSave with the secret branch lost: everything is saved as p1:
ValueToSave_PlainOnly(plat, key, isSecret, value, iv, fill) ==
    HEADER_PLAIN_V1 \o value

\* step 2 of loadConfig: the string handed to putString
ValueToSave(plat, key, isSecret, value, iv, fill) ==
    IF SaveEncrypts(isSecret, value)
    THEN HEADER_SECRET_V1 \o encryptSecret(plat, key, value, iv, fill)
    ELSE HEADER_PLAIN_V1 \o value

----------------------------------------------------------------------------
(* setupConfig: sys_config.h, with promptAndReadYesNo of sys_serial_utils.h
   and IPAddress of the Arduino core *)

\* IPAddress(0, 0, 0, 0), the address config starts with
UnconfiguredAddress == <<0, 0, 0, 0>>

\* String::toLowerCase
toLowerCase(str) ==
    [i \in 1..Len(str) |->
        IF str[i] >= 65 /\ str[i] <= 90 THEN str[i] + 32 ELSE str[i]]

\* promptAndReadYesNo(prompt, defaultValue) when the operator types `typed`
\* and a newline
promptAndReadYesNo(typed, defaultValue) ==
    LET yesno == toLowerCase(promptAndReadLine(typed,
                     IF defaultValue THEN <<89>> ELSE <<78>>))
    IN startsWith(yesno, <<121>>)

\* a decimal number as Print::print writes it
DecimalString(n) ==
    IF n < 10 THEN <<48 + n>>
    ELSE IF n < 100 THEN <<48 + (n \div 10), 48 + (n % 10)>>
    ELSE <<48 + (n \div 100), 48 + ((n \div 10) % 10), 48 + (n % 10)>>

\* IPAddress::toString
toString(address) ==
    DecimalString(address[1]) \o <<46>> \o DecimalString(address[2])
    \o <<46>> \o DecimalString(address[3]) \o <<46>>
    \o DecimalString(address[4])

\* the loop of IPAddress::fromString from character i on: acc is the
\* accumulator (-1: no digit yet), dots the dots seen, bytes the address
RECURSIVE fromStringFrom(_, _, _, _, _)
fromStringFrom(address, i, acc, dots, bytes) ==
    IF i > Len(address)
    THEN IF dots # 3 \/ acc < 0 THEN [ok |-> FALSE, bytes |-> bytes]
         ELSE [ok |-> TRUE, bytes |-> [bytes EXCEPT ![4] = acc]]
    ELSE LET c == address[i] IN
         IF c >= 48 /\ c <= 57
         THEN LET a == IF acc < 0 THEN c - 48 ELSE acc * 10 + (c - 48)
              IN IF a > 255 THEN [ok |-> FALSE, bytes |-> bytes]
                 ELSE fromStringFrom(address, i + 1, a, dots, bytes)
         ELSE IF c = 46
         THEN IF dots = 3 \/ acc < 0 THEN [ok |-> FALSE, bytes |-> bytes]
              ELSE fromStringFrom(address, i + 1, -1, dots + 1,
                                  [bytes EXCEPT ![dots + 1] = acc])
         ELSE [ok |-> FALSE, bytes |-> bytes]

\* IPAddress::fromString(address): whether the text is a dotted quad, and
\* the address it leaves in the object
fromString(address) ==
    fromStringFrom(address, 1, -1, 0, UnconfiguredAddress)

\* the ConfigParam table, in the order setupConfig loads the parameters
SetupParams ==
    << [key |-> "dvc_id", mandatory |-> TRUE, isSecret |-> FALSE,
        isConfigurable |-> TRUE],
       [key |-> "dvc_manuf", mandatory |-> FALSE, isSecret |-> FALSE,
        isConfigurable |-> FALSE],
       [key |-> "dvc_model", mandatory |-> FALSE, isSecret |-> FALSE,
        isConfigurable |-> FALSE],
       [key |-> "tz", mandatory |-> TRUE, isSecret |-> FALSE,
        isConfigurable |-> TRUE],
       [key |-> "mqtt_broker_ip", mandatory |-> TRUE, isSecret |-> FALSE,
        isConfigurable |-> TRUE],
       [key |-> "s_wifi_ssid", mandatory |-> TRUE, isSecret |-> TRUE,
        isConfigurable |-> TRUE],
       [key |-> "s_wifi_pwd", mandatory |-> TRUE, isSecret |-> TRUE,
        isConfigurable |-> TRUE],
       [key |-> "s_mqtt_user", mandatory |-> TRUE, isSecret |-> TRUE,
        isConfigurable |-> TRUE],
       [key |-> "s_mqtt_pwd", mandatory |-> TRUE, isSecret |-> TRUE,
        isConfigurable |-> TRUE],
       [key |-> "s_mqtt_ca", mandatory |-> FALSE, isSecret |-> TRUE,
        isConfigurable |-> TRUE] >>

\* the steps of setupConfig at which it calls loadConfig, and the step of
\* the broker loop
GeneralLoadSteps == 2..6
SecretLoadSteps == 10..14
LoadSteps == GeneralLoadSteps \cup SecretLoadSteps
BrokerStep == 6
ReturnedStep == 16

\* the entry of SetupParams loaded at a step
LoadIndex(st) == IF st \in GeneralLoadSteps THEN st - 1 ELSE st - 4

\* the fields of config as initialised, handed in as defaults
DefaultManufacturer == <<65, 114, 100, 117, 105, 110, 111>>
DefaultModel(plat) ==
    IF plat = "SAMD" THEN <<78, 97, 110, 111, 32, 51, 51, 32, 73, 111, 84>>
    ELSE <<78, 97, 110, 111, 32, 69, 83, 80, 51, 50, 32, 83, 51>>
DefaultTimeZone == <<69, 117, 114, 111, 112, 101, 47, 76, 111, 110, 100, 111, 110>>

\* the parameters whose field of config is a String
StringKeys == Keys \ {"mqtt_broker_ip"}

\* the String fields of config as the struct initialises them
ConfigAtBoot(plat) ==
    [k \in StringKeys |->
        CASE k = "dvc_manuf" -> DefaultManufacturer
          [] k = "dvc_model" -> DefaultModel(plat)
          [] k = "tz" -> DefaultTimeZone
          [] OTHER -> EmptyStr]

\* the default setupConfig passes to the loadConfig call of a step
SetupDefault(st, plat, address) ==
    CASE st = 3 -> DefaultManufacturer
      [] st = 4 -> DefaultModel(plat)
      [] st = 5 -> DefaultTimeZone
      [] st = BrokerStep -> toString(address)
      [] OTHER -> EmptyStr

----------------------------------------------------------------------------
(* Inputs of the model *)

\* "v1", a value found in the store
StoredValue == <<118, 49>>
\* "df", a default handed in by the caller
BuiltinDefault == <<100, 102>>
\* "new", a line typed by the operator
TypedValue == <<110, 101, 119>>

\* the initialisation vectors the random source may deliver
IV1 == [i \in 1..16 |-> i]
IV2 == [i \in 1..16 |-> 200 + i]
IVs == {IV1, IV2}
\* the IV drawn inside setupConfig
SetupIVs == {IV1}

\* the bytes a never-written stack buffer may hold; only the SAMD build
\* reads such a buffer
StackFills(plat) == IF plat = "SAMD" THEN {0, 1} ELSE {0}

\* may ECCX08.begin() and ECCX08.serialNumber() succeed?  Only the SAMD
\* build asks, and only while the key is not yet derived
EccOutcomes(plat, inited) ==
    IF plat = "SAMD" /\ ~inited THEN BOOLEAN ELSE {FALSE}

Defaults == {EmptyStr, BuiltinDefault}
TypedLines == {EmptyStr, <<CR>>, TypedValue}

\* the key this device derives when its identity source answers
DeviceKey(plat) == deriveHardwareKey(plat, FALSE, ZeroKey, TRUE)

\* the payload this build writes for the secret v
WrittenSecret(plat, v) == encryptSecret(plat, DeviceKey(plat), v, IV1, 0)

\* "QUJD": valid Base64 of three bytes, shorter than IV plus one block
TruncatedPayload == <<81, 85, 74, 68>>
\* "!!": no Base64 at all
MalformedPayload == <<33, 33>>
\* a packet of the right shape encrypted under another key: the padding
\* byte comes out invalid under the device key
BadPaddingPayload(plat) == encryptSecret("ESP32", ZeroKey, StoredValue, IV1, 0)

\* the plaintext an entry was written for, when there is one
NoPlain == [known |-> FALSE, val |-> EmptyStr]
PlainOf(v) == [known |-> TRUE, val |-> v]

\* s1: entries that hold no decodable packet
UndecodableEntries(plat) ==
    { Stored(HEADER_SECRET_V1 \o TruncatedPayload),
      Stored(HEADER_SECRET_V1 \o MalformedPayload),
      Stored(HEADER_SECRET_V1 \o BadPaddingPayload(plat)) }

\* the entries loadConfig may find under the key, each with the plaintext it
\* was written for
InitialEntries(plat) ==
    { [entry |-> Absent, plain |-> NoPlain],
      [entry |-> Stored(StoredValue), plain |-> PlainOf(StoredValue)],
      [entry |-> Stored(HEADER_PLAIN_V1 \o StoredValue),
       plain |-> PlainOf(StoredValue)],
      [entry |-> Stored(HEADER_PLAIN_V1), plain |-> PlainOf(EmptyStr)],
      [entry |-> Stored(HEADER_SECRET_V1 \o WrittenSecret(plat, StoredValue)),
       plain |-> PlainOf(StoredValue)],
      [entry |-> Stored(HEADER_SECRET_V1 \o WrittenSecret(plat, EmptyStr)),
       plain |-> PlainOf(EmptyStr)],
      [entry |-> Stored(HEADER_SECRET_V1), plain |-> NoPlain] }
    \cup { [entry |-> e, plain |-> NoPlain] : e \in UndecodableEntries(plat) }

----------------------------------------------------------------------------
(* State *)

VARIABLES
    platform,         \* the build that runs: "ESP32" or "SAMD"
    keyInitialized,   \* sys_crypto.h: bool keyInitialized
    derivedAESKey,    \* sys_crypto.h: uint8_t derivedAESKey[32]
    prefs,            \* the open Preferences namespace: key -> entry
    param,            \* the ConfigParam being loaded
    pc,               \* where the current loadConfig call stands
    rawValue,         \* loadConfig: String rawValue
    value,            \* loadConfig: String value
    defaultValue,     \* loadConfig: String defaultValue
    force,            \* loadConfig: bool force
    migrationNeeded,  \* loadConfig: bool migrationNeeded
    argDefault,       \* the default the caller passed to this call
    argForce,         \* the force flag the caller passed to this call
    entryAtCall,      \* the entry under the key when this call started
    classified,       \* value as step 1 left it, before the force handling
    prompts,          \* prompts issued by this call (saturating)
    lastLine,         \* the line read by the last prompt of this call
    putCalls,         \* putString calls made by this call
    flashWrites,      \* putString calls of this call that changed the entry
    retVal,           \* the String the last finished call returned
    callNo,           \* loadConfig calls started so far
    entryPlain,       \* the plaintext the present entry was written for
    plainAtCall,      \* entryPlain when this call started
    getCalls,         \* getString calls made by this call
    hardwareCryptoSuccess,  \* deriveHardwareKey: the local of that name, at
                      \* the run that made derivedAESKey
    boots,            \* restarts of the device so far
    earlierKey,       \* the key an earlier process of this device derived
    peer,             \* keyInitialized and derivedAESKey of another board
                      \* running the same build
    serialIn,         \* characters waiting in the Serial receive buffer
    line,             \* readLine: String line
    consumed,         \* characters Serial.read() has returned to this
                      \* promptAndReadLine call
    step,             \* setupConfig: the statement it stands before
    doReconfigure,    \* setupConfig: bool doReconfigure
    mqttBrokerAddress,  \* config.mqttBrokerAddress, four bytes
    prefsStarted,     \* preferences: a namespace is open
    prefsName,        \* preferences: the name begin() was last given
    nvs,              \* the stored namespaces: name -> key -> entry, as of
                      \* the last end()
    nsGets,           \* getString calls made under each namespace
    nsPuts,           \* putString calls made under each namespace
    config            \* the String fields of config, by the key of their
                      \* parameter

vars == << platform, keyInitialized, derivedAESKey, prefs, param, pc,
           rawValue, value, defaultValue, force, migrationNeeded,
           argDefault, argForce, entryAtCall, classified, prompts, lastLine,
           putCalls, flashWrites, retVal, callNo, entryPlain, plainAtCall,
           getCalls, hardwareCryptoSuccess, boots, earlierKey, peer,
           serialIn, line, consumed, step, doReconfigure,
           mqttBrokerAddress, prefsStarted, prefsName, nvs, nsGets,
           nsPuts, config >>

\* what only a restart or another board changes
restartVars == << boots, earlierKey, peer >>
\* what only the serial port changes
serialVars == << serialIn, line, consumed >>
\* what only setupConfig changes
setupVars == << step, doReconfigure, mqttBrokerAddress, prefsStarted,
               prefsName, nvs, nsGets, nsPuts,
               config >>

\* the namespaces setupConfig opens
Namespaces == {"config", "secrets"}

\* IPAddress(0,0,0,0), the unconfigured broker address

\* loadConfig is called outside setupConfig: "assumes a preferences
\* namespace has been opened"
NamespaceOpened ==
    /\ step = 0
    /\ doReconfigure = FALSE
    /\ mqttBrokerAddress = UnconfiguredAddress
    /\ prefsStarted = TRUE
    /\ prefsName = "config"
    /\ nvs = [n \in Namespaces |-> [k \in Keys |-> Absent]]
    /\ nsGets = [n \in Namespaces |-> 0]
    /\ nsPuts = [n \in Namespaces |-> 0]
    /\ config = ConfigAtBoot(platform)

\* no key of an earlier process, no key on the other board
NoEarlierKey == [known |-> FALSE, key |-> ZeroKey, hw |-> FALSE]
PeerNotBooted == [keyInitialized |-> FALSE, derivedAESKey |-> ZeroKey]

Params ==
    [key : {"dvc_id"}, mandatory : BOOLEAN, isSecret : BOOLEAN,
     isConfigurable : BOOLEAN]

Init ==
    /\ platform \in Platforms
    /\ keyInitialized = FALSE
    /\ derivedAESKey = ZeroKey
    /\ param \in Params
    /\ \E e \in InitialEntries(platform) :
          /\ prefs = [k \in Keys |->
                        IF k = param.key THEN e.entry
                        ELSE Stored(HEADER_PLAIN_V1 \o BuiltinDefault)]
          /\ entryAtCall = e.entry
          /\ entryPlain = e.plain
          /\ plainAtCall = e.plain
    /\ pc = "idle"
    /\ rawValue = EmptyStr
    /\ value = EmptyStr
    /\ defaultValue = EmptyStr
    /\ force = FALSE
    /\ migrationNeeded = FALSE
    /\ argDefault = EmptyStr
    /\ argForce = FALSE
    /\ classified = EmptyStr
    /\ prompts = 0
    /\ lastLine = EmptyStr
    /\ putCalls = 0
    /\ flashWrites = 0
    /\ retVal = EmptyStr
    /\ callNo = 0
    /\ getCalls = 0
    /\ hardwareCryptoSuccess = FALSE
    /\ boots = 0
    /\ earlierKey = NoEarlierKey
    /\ peer = PeerNotBooted
    /\ serialIn = EmptyStr
    /\ line = EmptyStr
    /\ consumed = EmptyStr
    /\ NamespaceOpened

----------------------------------------------------------------------------
(* Actions *)

\* a loadConfig that removes the stored entry as soon as force applies
LoadRead_ForceRemoves(dflt, frc, eccOk, fill) ==
    /\ pc = "idle"
    /\ callNo < MaxCalls
    /\ LET raw == getString(prefs, param.key)
           key == IF ClassifyDecrypts(raw)
                  THEN deriveHardwareKey(platform, keyInitialized,
                                         derivedAESKey, eccOk)
                  ELSE derivedAESKey
           cls == Classify(platform, key, raw, dflt, param.isSecret, fill)
           frcd == doForce(frc, param.isConfigurable)
           fc == ForceClear(frcd, cls.value, dflt)
       IN /\ rawValue' = raw
          /\ derivedAESKey' = key
          /\ keyInitialized' = (keyInitialized \/ ClassifyDecrypts(raw))
          /\ hardwareCryptoSuccess' =
                IF ClassifyDecrypts(raw)
                THEN deriveHardwareCryptoSuccess(platform, keyInitialized,
                         hardwareCryptoSuccess, eccOk)
                ELSE hardwareCryptoSuccess
          /\ classified' = cls.value
          /\ migrationNeeded' = cls.migrationNeeded
          /\ force' = frcd
          /\ value' = fc.value
          /\ defaultValue' = fc.defaultValue
          /\ pc' = IF fc.value = EmptyStr THEN "prompt" ELSE "migrate"
    /\ plainAtCall' = entryPlain
    /\ argDefault' = dflt
    /\ argForce' = frc
    /\ entryAtCall' = prefs[param.key]
    /\ prompts' = 0
    /\ lastLine' = EmptyStr
    /\ putCalls' = 0
    /\ flashWrites' = 0
    /\ callNo' = callNo + 1
    /\ getCalls' = 1
    /\ prefs' = IF doForce(frc, param.isConfigurable)
                THEN [prefs EXCEPT ![param.key] = Absent]
                ELSE prefs
    /\ UNCHANGED << platform, param, retVal, entryPlain >>
    /\ UNCHANGED << restartVars, serialVars, setupVars >>

\* loadConfig(param, dflt, frc) is called: the ConfigParam overload, the
\* read of the entry, step 1 and the force handling, up to the test of the
\* prompt loop.  eccOk: whether the secure element answers should the key
\* have to be derived now; fill: what a never-written buffer holds
LoadRead(dflt, frc, eccOk, fill) ==
    /\ pc = "idle"
    /\ callNo < MaxCalls
    /\ LET raw == getString(prefs, param.key)
           key == IF ClassifyDecrypts(raw)
                  THEN deriveHardwareKey(platform, keyInitialized,
                                         derivedAESKey, eccOk)
                  ELSE derivedAESKey
           cls == Classify(platform, key, raw, dflt, param.isSecret, fill)
           frcd == doForce(frc, param.isConfigurable)
           fc == ForceClear(frcd, cls.value, dflt)
       IN /\ rawValue' = raw
          /\ derivedAESKey' = key
          /\ keyInitialized' = (keyInitialized \/ ClassifyDecrypts(raw))
          /\ hardwareCryptoSuccess' =
                IF ClassifyDecrypts(raw)
                THEN deriveHardwareCryptoSuccess(platform, keyInitialized,
                         hardwareCryptoSuccess, eccOk)
                ELSE hardwareCryptoSuccess
          /\ classified' = cls.value
          /\ migrationNeeded' = cls.migrationNeeded
          /\ force' = frcd
          /\ value' = fc.value
          /\ defaultValue' = fc.defaultValue
          /\ pc' = IF fc.value = EmptyStr THEN "prompt" ELSE "migrate"
    /\ plainAtCall' = entryPlain
    /\ argDefault' = dflt
    /\ argForce' = frc
    /\ entryAtCall' = prefs[param.key]
    /\ prompts' = 0
    /\ lastLine' = EmptyStr
    /\ putCalls' = 0
    /\ flashWrites' = 0
    /\ callNo' = callNo + 1
    /\ getCalls' = 1
    /\ UNCHANGED << platform, prefs, param, retVal, entryPlain >>
    /\ UNCHANGED << restartVars, serialVars, setupVars >>

\* a prompt loop that saves every answer as it comes
LoadPrompt_Saves(typed) ==
    /\ pc = "prompt"
    /\ LET v == promptAndReadLine(typed, defaultValue) IN
          /\ value' = v
          /\ lastLine' = readLine(typed)
          /\ prefs' = putString(prefs, param.key, HEADER_PLAIN_V1 \o v)
          /\ entryPlain' = PlainOf(v)
          /\ IF (param.mandatory /\ v = EmptyStr)
             THEN pc' = "prompt" /\ UNCHANGED migrationNeeded
             ELSE pc' = "migrate" /\ migrationNeeded' = TRUE
    /\ prompts' = IF prompts < MaxPrompts THEN prompts + 1 ELSE prompts
    /\ putCalls' = 0
    /\ UNCHANGED << platform, keyInitialized, derivedAESKey, param,
                    rawValue, defaultValue, force, argDefault, argForce,
                    entryAtCall, classified, flashWrites, retVal,
                    callNo, plainAtCall, getCalls, hardwareCryptoSuccess >>
    /\ UNCHANGED << restartVars, serialVars, setupVars >>

\* one round of the prompt loop: the operator types `typed` and a newline
LoadPrompt(typed) ==
    /\ pc = "prompt"
    /\ LET v == promptAndReadLine(typed, defaultValue) IN
          /\ value' = v
          /\ lastLine' = readLine(typed)
          /\ IF KeepAsking(param.mandatory, v)
             THEN pc' = "prompt" /\ UNCHANGED migrationNeeded
             ELSE pc' = "migrate" /\ migrationNeeded' = TRUE
    /\ prompts' = IF prompts < MaxPrompts THEN prompts + 1 ELSE prompts
    /\ UNCHANGED << platform, keyInitialized, derivedAESKey, prefs, param,
                    rawValue, defaultValue, force, argDefault, argForce,
                    entryAtCall, classified, putCalls, flashWrites, retVal,
                    callNo, entryPlain, plainAtCall, getCalls,
                    hardwareCryptoSuccess >>
    /\ UNCHANGED << restartVars, serialVars, setupVars >>

\* step 2 of loadConfig and its return
LoadMigrate(iv, eccOk, fill) ==
    /\ pc = "migrate"
    /\ IF migrationNeeded
       THEN LET enc == SaveEncrypts(param.isSecret, value)
                key == IF enc
                       THEN deriveHardwareKey(platform, keyInitialized,
                                              derivedAESKey, eccOk)
                       ELSE derivedAESKey
                valueToSave == ValueToSave(platform, key, param.isSecret,
                                           value, iv, fill)
            IN /\ prefs' = putString(prefs, param.key, valueToSave)
               /\ derivedAESKey' = key
               /\ keyInitialized' = (keyInitialized \/ enc)
               /\ hardwareCryptoSuccess' =
                     IF enc
                     THEN deriveHardwareCryptoSuccess(platform,
                              keyInitialized, hardwareCryptoSuccess, eccOk)
                     ELSE hardwareCryptoSuccess
               /\ entryPlain' = PlainOf(value)
               /\ putCalls' = putCalls + 1
               /\ flashWrites' =
                     IF prefs[param.key] = Stored(valueToSave)
                     THEN flashWrites ELSE flashWrites + 1
       ELSE UNCHANGED << prefs, derivedAESKey, keyInitialized, entryPlain,
                         putCalls, flashWrites, hardwareCryptoSuccess >>
    /\ retVal' = value
    /\ pc' = "done"
    /\ UNCHANGED << platform, param, rawValue, value, defaultValue, force,
                    migrationNeeded, argDefault, argForce, entryAtCall,
                    classified, prompts, lastLine, callNo, plainAtCall,
                    getCalls >>
    /\ UNCHANGED << restartVars, serialVars, setupVars >>

\* the caller takes the returned String, keeps it and goes on; the locals of
\* the finished call are gone
CallerContinues ==
    /\ pc = "done"
    /\ pc' = "idle"
    /\ rawValue' = EmptyStr
    /\ value' = EmptyStr
    /\ defaultValue' = EmptyStr
    /\ force' = FALSE
    /\ migrationNeeded' = FALSE
    /\ argDefault' = EmptyStr
    /\ argForce' = FALSE
    /\ classified' = EmptyStr
    /\ prompts' = 0
    /\ lastLine' = EmptyStr
    /\ putCalls' = 0
    /\ flashWrites' = 0
    /\ entryAtCall' = prefs[param.key]
    /\ plainAtCall' = entryPlain
    /\ getCalls' = 0
    /\ UNCHANGED << platform, keyInitialized, derivedAESKey, prefs, param,
                    callNo, entryPlain, hardwareCryptoSuccess, retVal >>
    /\ UNCHANGED << restartVars, serialVars, setupVars >>

Next ==
    \/ \E dflt \in Defaults, frc \in BOOLEAN,
          eccOk \in EccOutcomes(platform, keyInitialized),
          fill \in StackFills(platform) : LoadRead(dflt, frc, eccOk, fill)
    \/ \E typed \in TypedLines : LoadPrompt(typed)
    \/ \E iv \in IVs, eccOk \in EccOutcomes(platform, keyInitialized),
          fill \in StackFills(platform) : LoadMigrate(iv, eccOk, fill)
    \/ CallerContinues

Spec == Init /\ [][Next]_vars

----------------------------------------------------------------------------
(* setupConfig, statement by statement, with the loadConfig calls it makes *)

\* #define NO_RECONFIGURE
NO_RECONFIGURE == FALSE

\* what the operator may answer to "Do you want to configure the device?"
YesNoLines == {EmptyStr, <<89>>, <<110>>}

\* a dotted quad the operator may type for the broker
ValidAddress == <<49, 48, 46, 48, 46, 48, 46, 53>>

\* what the operator may type at the prompt of the loadConfig call of a
\* step: nothing or a text for the general parameters, the first secret and
\* the optional certificate, a text for the other secrets
SetupTypedLines(st) ==
    IF st = BrokerStep THEN {EmptyStr, TypedValue, ValidAddress}
    ELSE IF st \in {11, 12, 13} THEN {TypedValue}
    ELSE {EmptyStr, TypedValue}

\* the namespaces as a boot may find them: never written, or written by an
\* earlier run of setupConfig in which the operator typed the broker text
NeverWritten == [k \in Keys |-> Absent]
BrokerEntries ==
    {Absent, Stored(HEADER_PLAIN_V1 \o ValidAddress),
     Stored(HEADER_PLAIN_V1 \o TypedValue)}
ConfigWritten(broker) ==
    [k \in Keys |->
        IF k = "mqtt_broker_ip" THEN broker
        ELSE IF k = "dvc_manuf" THEN Stored(HEADER_PLAIN_V1 \o DefaultManufacturer)
        ELSE IF k = "tz" THEN Stored(HEADER_PLAIN_V1 \o DefaultTimeZone)
        ELSE IF k = "dvc_id" THEN Stored(HEADER_PLAIN_V1 \o StoredValue)
        ELSE Absent]
SecretsWritten(plat) ==
    [k \in Keys |->
        IF k \in SecretKeys
        THEN Stored(HEADER_SECRET_V1 \o WrittenSecret(plat, StoredValue))
        ELSE Absent]
ConfigStores == {NeverWritten} \cup {ConfigWritten(b) : b \in BrokerEntries}
SecretStores(plat) == {NeverWritten, SecretsWritten(plat)}

\* the device boots and sketch setup() calls setupConfig()
SetupInit ==
    /\ platform \in Platforms
    /\ keyInitialized = FALSE
    /\ derivedAESKey = ZeroKey
    /\ hardwareCryptoSuccess = FALSE
    /\ param = SetupParams[1]
    /\ \E c \in ConfigStores, sec \in SecretStores(platform) :
          nvs = [n \in Namespaces |-> IF n = "config" THEN c ELSE sec]
    /\ prefs = NeverWritten
    /\ prefsStarted = FALSE
    /\ prefsName = ""
    /\ step = 0
    /\ doReconfigure = FALSE
    /\ mqttBrokerAddress = UnconfiguredAddress
    /\ nsGets = [n \in Namespaces |-> 0]
    /\ nsPuts = [n \in Namespaces |-> 0]
    /\ config = ConfigAtBoot(platform)
    /\ pc = "idle"
    /\ rawValue = EmptyStr
    /\ value = EmptyStr
    /\ defaultValue = EmptyStr
    /\ force = FALSE
    /\ migrationNeeded = FALSE
    /\ argDefault = EmptyStr
    /\ argForce = FALSE
    /\ entryAtCall = Absent
    /\ classified = EmptyStr
    /\ prompts = 0
    /\ lastLine = EmptyStr
    /\ putCalls = 0
    /\ flashWrites = 0
    /\ retVal = EmptyStr
    /\ callNo = 0
    /\ entryPlain = NoPlain
    /\ plainAtCall = NoPlain
    /\ getCalls = 0
    /\ boots = 0
    /\ earlierKey = NoEarlierKey
    /\ peer = PeerNotBooted
    /\ serialIn = EmptyStr
    /\ line = EmptyStr
    /\ consumed = EmptyStr

\* the locals of loadConfig, untouched between two calls
loadLocals ==
    << rawValue, value, defaultValue, force, migrationNeeded, argDefault,
       argForce, classified, prompts, lastLine, putCalls, flashWrites,
       getCalls, plainAtCall, entryPlain, retVal, callNo >>

\* lines 180-186: the question whether to reconfigure.  serialUp: whether
\* Serial is true; typed: the operator's answer
SetupAsk(serialUp, typed) ==
    /\ step = 0
    /\ pc = "idle"
    /\ doReconfigure' =
          IF serialUp /\ ~NO_RECONFIGURE
          THEN promptAndReadYesNo(typed, FALSE)
          ELSE FALSE
    /\ step' = 1
    /\ UNCHANGED << platform, keyInitialized, derivedAESKey,
                    hardwareCryptoSuccess, prefs, param, pc, entryAtCall,
                    mqttBrokerAddress, prefsStarted, prefsName, nvs, nsGets,
                    nsPuts,
                    config >>
    /\ UNCHANGED << loadLocals, restartVars, serialVars >>

\* preferences.begin(name) at lines 189 and 206: opens the namespace unless
\* one is open already; the next statement is the first loadConfig call of
\* the group
SetupBegin(name) ==
    /\ step \in {1, 9}
    /\ pc = "idle"
    /\ IF prefsStarted
       THEN UNCHANGED << prefsStarted, prefsName, prefs >>
       ELSE /\ prefsStarted' = TRUE
            /\ prefsName' = name
            /\ prefs' = nvs[name]
    /\ step' = step + 1
    /\ param' = SetupParams[LoadIndex(step + 1)]
    /\ entryAtCall' = prefs'[param'.key]
    /\ UNCHANGED << platform, keyInitialized, derivedAESKey,
                    hardwareCryptoSuccess, pc, doReconfigure,
                    mqttBrokerAddress, nvs, nsGets, nsPuts,
                    config >>
    /\ UNCHANGED << loadLocals, restartVars, serialVars >>

\* the name setupConfig gives begin() at a step
BeginName(st) == IF st = 1 THEN "config" ELSE "secrets"

\* the loadConfig call of a step starts: lines 190-196 and 207-211
SetupLoadRead(eccOk, fill) ==
    /\ step \in LoadSteps
    /\ LoadRead(SetupDefault(step, platform, mqttBrokerAddress),
                doReconfigure, eccOk, fill)

\* the operator answers a prompt of the loadConfig call of a step
SetupLoadPrompt(typed) ==
    /\ step \in LoadSteps
    /\ LoadPrompt(typed)

\* the loadConfig call of a step saves and returns
SetupLoadMigrate(iv, eccOk, fill) ==
    /\ step \in LoadSteps
    /\ LoadMigrate(iv, eccOk, fill)

\* a setupConfig that takes the broker text as it comes
StepAfterLoad_NoRetry(st, ret) == st + 1

\* the step after a loadConfig call has returned `ret`: the broker loop
\* goes round again while fromString fails
StepAfterLoad(st, ret) ==
    IF st = BrokerStep /\ ~fromString(ret).ok THEN st ELSE st + 1

\* config.mqttBrokerAddress after the loadConfig call of a step has
\* returned `ret`
AddressAfterLoad(st, ret, address) ==
    IF st = BrokerStep THEN fromString(ret).bytes ELSE address

\* a call counter that stops counting at MaxNsCalls
Saturate(n) == IF n > MaxNsCalls THEN MaxNsCalls ELSE n

\* the assignment of the returned String to its field of config, and for
\* the broker the test of the while loop at line 195; the loop has no
\* bound, every round of it is a first call as far as callNo goes
SetupAssign ==
    /\ step \in LoadSteps
    /\ pc = "done"
    /\ LET next == StepAfterLoad(step, retVal) IN
          /\ step' = next
          /\ mqttBrokerAddress' =
                AddressAfterLoad(step, retVal, mqttBrokerAddress)
          /\ param' = IF next \in LoadSteps
                      THEN SetupParams[LoadIndex(next)] ELSE param
          /\ callNo' = 0
          /\ entryAtCall' = prefs[param'.key]
    /\ nsGets' = [nsGets EXCEPT ![prefsName] = Saturate(@ + getCalls)]
    /\ nsPuts' = [nsPuts EXCEPT ![prefsName] = Saturate(@ + putCalls)]
    /\ config' = IF step = BrokerStep THEN config
                 ELSE [config EXCEPT ![param.key] = retVal]
    /\ pc' = "idle"
    /\ rawValue' = EmptyStr
    /\ value' = EmptyStr
    /\ defaultValue' = EmptyStr
    /\ force' = FALSE
    /\ migrationNeeded' = FALSE
    /\ argDefault' = EmptyStr
    /\ argForce' = FALSE
    /\ classified' = EmptyStr
    /\ prompts' = 0
    /\ lastLine' = EmptyStr
    /\ putCalls' = 0
    /\ flashWrites' = 0
    /\ getCalls' = 0
    /\ plainAtCall' = NoPlain
    /\ entryPlain' = NoPlain
    /\ UNCHANGED << platform, keyInitialized, derivedAESKey,
                    hardwareCryptoSuccess, prefs, retVal, doReconfigure,
                    prefsStarted, prefsName, nvs >>
    /\ UNCHANGED << restartVars, serialVars >>

\* preferences.end() at lines 200 and 212: the namespace is closed, what
\* was written under it stays in flash
SetupEnd ==
    /\ step \in {7, 15}
    /\ pc = "idle"
    /\ IF prefsStarted
       THEN /\ nvs' = [nvs EXCEPT ![prefsName] = prefs]
            /\ prefs' = NeverWritten
            /\ prefsStarted' = FALSE
       ELSE UNCHANGED << nvs, prefs, prefsStarted >>
    /\ step' = step + 1
    /\ UNCHANGED << platform, keyInitialized, derivedAESKey,
                    hardwareCryptoSuccess, param, pc, entryAtCall,
                    doReconfigure, mqttBrokerAddress, prefsName, nsGets,
                    nsPuts,
                    config >>
    /\ UNCHANGED << loadLocals, restartVars, serialVars >>

\* a setupConfig that goes on to the secrets without deriving the key
SetupDerive_Skipped(eccOk) ==
    /\ step = 8
    /\ pc = "idle"
    /\ step' = step + 1
    /\ UNCHANGED << platform, keyInitialized, derivedAESKey,
                    hardwareCryptoSuccess, prefs, param, pc, entryAtCall,
                    doReconfigure, mqttBrokerAddress, prefsStarted,
                    prefsName, nvs, nsGets, nsPuts,
                    config >>
    /\ UNCHANGED << loadLocals, restartVars, serialVars >>

\* deriveHardwareKey() at line 203, its result not looked at
SetupDerive(eccOk) ==
    /\ step = 8
    /\ pc = "idle"
    /\ derivedAESKey' =
          deriveHardwareKey(platform, keyInitialized, derivedAESKey, eccOk)
    /\ hardwareCryptoSuccess' =
          deriveHardwareCryptoSuccess(platform, keyInitialized,
              hardwareCryptoSuccess, eccOk)
    /\ keyInitialized' = TRUE
    /\ step' = step + 1
    /\ UNCHANGED << platform, prefs, param, pc, entryAtCall, doReconfigure,
                    mqttBrokerAddress, prefsStarted, prefsName, nvs, nsGets,
                    nsPuts,
                    config >>
    /\ UNCHANGED << loadLocals, restartVars, serialVars >>

SetupNext ==
    \/ \E serialUp \in BOOLEAN, typed \in YesNoLines :
          SetupAsk(serialUp, typed)
    \/ SetupBegin(BeginName(step))
    \/ \E eccOk \in EccOutcomes(platform, keyInitialized),
          fill \in StackFills(platform) : SetupLoadRead(eccOk, fill)
    \/ \E typed \in SetupTypedLines(step) : SetupLoadPrompt(typed)
    \/ \E iv \in SetupIVs, eccOk \in EccOutcomes(platform, keyInitialized),
          fill \in StackFills(platform) : SetupLoadMigrate(iv, eccOk, fill)
    \/ SetupAssign
    \/ SetupEnd
    \/ \E eccOk \in EccOutcomes(platform, keyInitialized) :
          SetupDerive(eccOk)

SetupSpec == SetupInit /\ [][SetupNext]_vars

----------------------------------------------------------------------------
(* setupConfig with an operator who answers every prompt with a valid text
   that is not empty, and a processor that keeps running *)

\* what such an operator types at the prompt of the loadConfig call of a
\* step
ValidLines(st) == IF st = BrokerStep THEN {ValidAddress} ELSE {TypedValue}

SetupLiveNext ==
    \/ \E serialUp \in BOOLEAN, typed \in YesNoLines :
          SetupAsk(serialUp, typed)
    \/ SetupBegin(BeginName(step))
    \/ \E eccOk \in EccOutcomes(platform, keyInitialized),
          fill \in StackFills(platform) : SetupLoadRead(eccOk, fill)
    \/ \E typed \in ValidLines(step) : SetupLoadPrompt(typed)
    \/ \E iv \in SetupIVs, eccOk \in EccOutcomes(platform, keyInitialized),
          fill \in StackFills(platform) : SetupLoadMigrate(iv, eccOk, fill)
    \/ SetupAssign
    \/ SetupEnd
    \/ \E eccOk \in EccOutcomes(platform, keyInitialized) :
          SetupDerive(eccOk)

\* when the loadConfig call of a step can start, and when it can save and
\* return: the guards of LoadRead and LoadMigrate, both of which move pc
LoadReadEnabled == step \in LoadSteps /\ pc = "idle" /\ callNo < MaxCalls
LoadMigrateEnabled == step \in LoadSteps /\ pc = "migrate"

\* the statements of setupConfig run one after the other without pause, and
\* promptAndReadLine gets its line: a step that can be taken is taken.  For
\* the two steps that encrypt or decrypt, weak fairness is written out with
\* their guards in the place of ENABLED
SetupLiveSpec ==
    /\ SetupInit
    /\ [][SetupLiveNext]_vars
    /\ WF_vars(\E serialUp \in BOOLEAN, typed \in YesNoLines :
                  SetupAsk(serialUp, typed))
    /\ WF_vars(SetupBegin(BeginName(step)))
    /\ WF_vars(\E typed \in ValidLines(step) : SetupLoadPrompt(typed))
    /\ WF_vars(SetupAssign)
    /\ WF_vars(SetupEnd)
    /\ WF_vars(\E eccOk \in EccOutcomes(platform, keyInitialized) :
                  SetupDerive(eccOk))
    /\ \/ []<>(~LoadReadEnabled)
       \/ []<><<\E eccOk \in EccOutcomes(platform, keyInitialized),
                   fill \in StackFills(platform) :
                     SetupLoadRead(eccOk, fill)>>_vars
    /\ \/ []<>(~LoadMigrateEnabled)
       \/ []<><<\E iv \in SetupIVs,
                   eccOk \in EccOutcomes(platform, keyInitialized),
                   fill \in StackFills(platform) :
                     SetupLoadMigrate(iv, eccOk, fill)>>_vars

----------------------------------------------------------------------------
(* loadConfig on a device that may lose power *)

\* the device resets in the middle of a loadConfig call, at the prompt or
\* before step 2: the call stops where it stands; the locals are shown as
\* they were at that moment
PowerLoss ==
    /\ pc \in {"prompt", "migrate"}
    /\ boots < MaxBoots
    /\ pc' = "reset"
    /\ UNCHANGED << platform, keyInitialized, derivedAESKey, prefs, param,
                    rawValue, value, defaultValue, force, migrationNeeded,
                    argDefault, argForce, entryAtCall, classified, prompts,
                    lastLine, putCalls, flashWrites, retVal, callNo,
                    entryPlain, plainAtCall, getCalls,
                    hardwareCryptoSuccess >>
    /\ UNCHANGED << restartVars, serialVars, setupVars >>

\* the next boot: memory starts afresh, the Preferences entries are kept
Restart ==
    /\ pc = "reset"
    /\ pc' = "idle"
    /\ boots' = boots + 1
    /\ keyInitialized' = FALSE
    /\ derivedAESKey' = ZeroKey
    /\ hardwareCryptoSuccess' = FALSE
    /\ rawValue' = EmptyStr
    /\ value' = EmptyStr
    /\ defaultValue' = EmptyStr
    /\ force' = FALSE
    /\ migrationNeeded' = FALSE
    /\ argDefault' = EmptyStr
    /\ argForce' = FALSE
    /\ classified' = EmptyStr
    /\ prompts' = 0
    /\ lastLine' = EmptyStr
    /\ putCalls' = 0
    /\ flashWrites' = 0
    /\ retVal' = EmptyStr
    /\ getCalls' = 0
    /\ entryAtCall' = prefs[param.key]
    /\ plainAtCall' = entryPlain
    /\ UNCHANGED << platform, prefs, param, callNo, entryPlain, earlierKey,
                    peer >>
    /\ UNCHANGED << serialVars, setupVars >>

PowerLossNext ==
    \/ Next
    \/ PowerLoss
    \/ Restart

PowerLossSpec == Init /\ [][PowerLossNext]_vars

----------------------------------------------------------------------------
(* Vocabulary of the properties *)

\* the entry under the parameter's key
ParamEntry == prefs[param.key]

\* the entry carries the tag that goes with the secret flag
TagMatches(e, isSecret) ==
    /\ e.present
    /\ IF isSecret THEN startsWith(e.val, HEADER_SECRET_V1)
       ELSE startsWith(e.val, HEADER_PLAIN_V1)

\* every later load of entry e decodes it to v: whatever the secure element
\* answers if the key is still to be derived, and whatever a never-written
\* buffer holds
DecodesTo(e, v) ==
    /\ e.present
    /\ \A eccOk \in EccOutcomes(platform, keyInitialized),
          fill \in StackFills(platform) :
          Classify(platform,
                   deriveHardwareKey(platform, keyInitialized, derivedAESKey,
                                     eccOk),
                   e.val, EmptyStr, param.isSecret, fill).value = v

----------------------------------------------------------------------------
(* C1 *)

\* C1: a loadConfig call with mandatory = true never returns the empty
\* string, whatever the entry, the default, the force flag and the lines the
\* operator types.
C1_MandatoryNeverEmpty ==
    (pc = "done" /\ param.mandatory) => retVal # EmptyStr

\* a mandatory load that was answered with an empty line first and returned
\* the line typed afterwards
C1_Witness ==
    /\ pc = "done"
    /\ param.mandatory
    /\ prompts >= 2
    /\ retVal = TypedValue

----------------------------------------------------------------------------
(* C2 *)

\* C2, first half: while a mandatory parameter with an absent entry and an
\* empty default is answered with empty lines, the call stays in the prompt
\* loop and the backend is not written.
C2_BlockedOnEmptyLines ==
    [][ ( /\ pc = "prompt"
          /\ param.mandatory
          /\ ~entryAtCall.present
          /\ argDefault = EmptyStr
          /\ lastLine' = EmptyStr )
        => (pc' = "prompt" /\ prefs' = prefs /\ putCalls' = 0) ]_vars

\* C2: loading a mandatory parameter whose entry is absent and whose default
\* is empty returns exactly the non-empty line the operator finally typed,
\* and the backend entry afterwards decodes to that line.
C2_ReturnsAndPersistsLine ==
    ( /\ pc = "done"
      /\ param.mandatory
      /\ ~entryAtCall.present
      /\ argDefault = EmptyStr )
    => ( /\ lastLine # EmptyStr
         /\ retVal = lastLine
         /\ DecodesTo(ParamEntry, lastLine) )

\* C2 on the ESP32 build alone
C2_OnESP32 == platform = "ESP32" => C2_ReturnsAndPersistsLine

\* C2 for parameters that are not secret
C2_NotSecret == ~param.isSecret => C2_ReturnsAndPersistsLine

----------------------------------------------------------------------------
(* C3 *)

\* C3: for an entry that is already canonical (p1: with secret = false, s1:
\* with secret = true), an empty payload included, loadConfig without force
\* makes no backend write and returns the stored plaintext.
C3_CanonicalNoWrite ==
    ( /\ pc = "done"
      /\ ~argForce
      /\ TagMatches(entryAtCall, param.isSecret)
      /\ plainAtCall.known )
    => (putCalls = 0 /\ retVal = plainAtCall.val)

\* C3 on the ESP32 build for entries whose plaintext is not empty
C3_OnESP32NonEmpty ==
    (platform = "ESP32" /\ plainAtCall.val # EmptyStr) => C3_CanonicalNoWrite

\* C3 for p1: entries whose plaintext is not empty, on both builds
C3_PlainNonEmpty ==
    (~param.isSecret /\ plainAtCall.val # EmptyStr) => C3_CanonicalNoWrite

----------------------------------------------------------------------------
(* C4 *)

\* C4 as claimed: after any loadConfig call returns, the entry carries the
\* tag matching the secret flag, an empty resolved value included.
C4_TagMatchesSecret ==
    pc = "done" => TagMatches(ParamEntry, param.isSecret)

\* C4 as amended: after any loadConfig call returns a non-empty value, the
\* entry carries the tag matching the secret flag; after it returns the empty
\* string the entry is exactly "p1:", whatever the secret flag.
C4_TagMatchesUnlessEmpty ==
    pc = "done" =>
        IF retVal = EmptyStr
        THEN ParamEntry = Stored(HEADER_PLAIN_V1)
        ELSE TagMatches(ParamEntry, param.isSecret)

\* a secret parameter resolved to the empty string and saved as "p1:"
C4_Witness ==
    /\ pc = "done"
    /\ param.isSecret
    /\ retVal = EmptyStr
    /\ putCalls = 1
    /\ ParamEntry = Stored(HEADER_PLAIN_V1)

----------------------------------------------------------------------------
(* C5 *)

\* a stored value without tag
IsLegacy(e) ==
    /\ e.present
    /\ e.val # EmptyStr
    /\ ~startsWith(e.val, HEADER_SECRET_V1)
    /\ ~startsWith(e.val, HEADER_PLAIN_V1)

\* C5: a legacy value v loaded without force is returned as v and rewritten
\* as p1:v (secret = false) or as s1:<ciphertext of v> (secret = true), and
\* every later load without force decodes the entry to v again.
C5_LegacyMigrates ==
    (pc = "done" /\ ~argForce /\ IsLegacy(entryAtCall)) =>
        /\ retVal = entryAtCall.val
        /\ IF param.isSecret
           THEN startsWith(ParamEntry.val, HEADER_SECRET_V1)
           ELSE ParamEntry = Stored(HEADER_PLAIN_V1 \o entryAtCall.val)
        /\ DecodesTo(ParamEntry, entryAtCall.val)

\* C5 on the ESP32 build alone
C5_OnESP32 == platform = "ESP32" => C5_LegacyMigrates

\* C5 for parameters that are not secret
C5_NotSecret == ~param.isSecret => C5_LegacyMigrates

----------------------------------------------------------------------------
(* C6 *)

\* a tagged entry written for a non-empty plaintext whose tag does not go
\* with the secret flag
IsMismatched(e, plain, isSecret) ==
    /\ e.present
    /\ plain.known
    /\ plain.val # EmptyStr
    /\ \/ startsWith(e.val, HEADER_SECRET_V1)
       \/ startsWith(e.val, HEADER_PLAIN_V1)
    /\ ~TagMatches(e, isSecret)

\* C6: a p1: entry with plaintext v loaded under secret = true is rewritten
\* as an s1: entry that decrypts to v, an s1: entry that decrypts to v loaded
\* under secret = false is rewritten as p1:v; either way the load returns v
\* and later loads return v.
C6_MismatchCorrected ==
    ( /\ pc = "done"
      /\ ~argForce
      /\ IsMismatched(entryAtCall, plainAtCall, param.isSecret) )
    => ( /\ retVal = plainAtCall.val
         /\ TagMatches(ParamEntry, param.isSecret)
         /\ ~param.isSecret =>
               ParamEntry = Stored(HEADER_PLAIN_V1 \o plainAtCall.val)
         /\ DecodesTo(ParamEntry, plainAtCall.val) )

\* C6 on the ESP32 build alone
C6_OnESP32 == platform = "ESP32" => C6_MismatchCorrected

----------------------------------------------------------------------------
(* C7 *)

\* C7: when the entry is s1:-tagged and cannot be decrypted, loadConfig
\* treats the value as empty, enters the prompt loop, and overwrites the
\* entry with the canonical encoding of the value it obtains.
C7_DecodeFailureTreatedAsEmpty ==
    ( /\ pc \in {"prompt", "migrate", "done"}
      /\ entryAtCall \in UndecodableEntries(platform) )
    => ( /\ classified = EmptyStr
         /\ pc # "prompt" => prompts >= 1
         /\ pc = "done" => (putCalls = 1 /\ ParamEntry # entryAtCall) )

----------------------------------------------------------------------------
(* C8 *)

\* C8: the string loadConfig returns is the plaintext the entry was written
\* for, the caller's default or a line the operator typed; never the
\* payload of an s1: entry or another by-product of a failed decryption.
C8_ReturnsPlaintextDefaultOrLine ==
    pc = "done" =>
        retVal \in ( {argDefault, lastLine}
                     \cup (IF plainAtCall.known THEN {plainAtCall.val}
                           ELSE {}) )

\* C8 on the ESP32 build for entries that are not undecodable
C8_OnESP32Decodable ==
    (platform = "ESP32" /\ entryAtCall \notin UndecodableEntries(platform))
        => C8_ReturnsPlaintextDefaultOrLine

----------------------------------------------------------------------------
(* C9 *)

\* C9 as claimed: loadConfig prompts only when force is in effect (requested
\* and the parameter configurable) or the parameter is mandatory and its
\* resolved value is empty; an optional parameter whose value is empty is
\* returned as empty without a prompt.
C9_PromptOnlyForcedOrMandatory ==
    /\ pc = "prompt" => (force \/ (param.mandatory /\ classified = EmptyStr))
    /\ (pc = "done" /\ ~param.mandatory /\ ~force /\ classified = EmptyStr)
          => (prompts = 0 /\ retVal = EmptyStr)

\* C9 as amended: loadConfig prompts only when force is in effect or the
\* resolved value is empty, mandatory or not; an optional parameter whose
\* value is empty is prompted for exactly once and the answer (the default
\* on an empty line, possibly the empty string) is returned.
C9_PromptOnlyForcedOrEmpty ==
    /\ pc = "prompt" => (force \/ classified = EmptyStr)
    /\ (pc = "done" /\ ~force /\ classified # EmptyStr) => prompts = 0
    /\ (pc = "done" /\ ~param.mandatory /\ ~force /\ classified = EmptyStr)
          => ( /\ prompts = 1
               /\ retVal = IF lastLine = EmptyStr THEN argDefault
                           ELSE lastLine )

\* an optional parameter with an empty value: one prompt, answered with an
\* empty line, and the empty string returned
C9_Witness ==
    /\ pc = "done"
    /\ ~param.mandatory
    /\ ~force
    /\ classified = EmptyStr
    /\ prompts = 1
    /\ retVal = EmptyStr

----------------------------------------------------------------------------
(* The codec on its own: testSecureStorage with any original string *)

\* the string of length n the test encrypts
Plaintext(n) == [i \in 1..n |-> 97 + (i % 26)]

\* the plaintext length the specification gives as the configured maximum
MAX_PLAINTEXT_LEN == 4096

\* a plaintext one byte over that maximum
OversizePlaintext == Plaintext(MAX_PLAINTEXT_LEN + 1)

Plaintexts == {Plaintext(n) : n \in 0..MaxPlainLen} \cup {OversizePlaintext}

CodecInit ==
    /\ platform \in Platforms
    /\ keyInitialized = FALSE
    /\ derivedAESKey = ZeroKey
    /\ param = [key |-> "dvc_id", mandatory |-> FALSE, isSecret |-> TRUE,
                isConfigurable |-> FALSE]
    /\ prefs = [k \in Keys |-> Absent]
    /\ pc = "original"
    /\ value \in Plaintexts
    /\ rawValue = EmptyStr
    /\ retVal = EmptyStr
    /\ defaultValue = EmptyStr
    /\ force = FALSE
    /\ migrationNeeded = FALSE
    /\ argDefault = EmptyStr
    /\ argForce = FALSE
    /\ entryAtCall = Absent
    /\ classified = EmptyStr
    /\ prompts = 0
    /\ lastLine = EmptyStr
    /\ putCalls = 0
    /\ flashWrites = 0
    /\ callNo = 0
    /\ entryPlain = NoPlain
    /\ plainAtCall = NoPlain
    /\ getCalls = 0
    /\ hardwareCryptoSuccess = FALSE
    /\ boots = 0
    /\ earlierKey = NoEarlierKey
    /\ peer = PeerNotBooted
    /\ serialIn = EmptyStr
    /\ line = EmptyStr
    /\ consumed = EmptyStr
    /\ NamespaceOpened

codecFrame ==
    << platform, prefs, param, value, defaultValue, force, migrationNeeded,
       argDefault, argForce, entryAtCall, classified, prompts, lastLine,
       putCalls, flashWrites, callNo, entryPlain, plainAtCall, getCalls,
       boots, earlierKey, peer, serialIn, line, consumed, step,
       doReconfigure, mqttBrokerAddress, prefsStarted, prefsName, nvs,
       nsGets, nsPuts, config >>

\* String encrypted = encryptSecret(original)
TestEncrypt(iv, eccOk, fill) ==
    /\ pc = "original"
    /\ LET key == deriveHardwareKey(platform, keyInitialized, derivedAESKey,
                                    eccOk)
       IN /\ derivedAESKey' = key
          /\ keyInitialized' = TRUE
          /\ hardwareCryptoSuccess' =
                deriveHardwareCryptoSuccess(platform, keyInitialized,
                    hardwareCryptoSuccess, eccOk)
          /\ rawValue' = encryptSecret(platform, key, value, iv, fill)
    /\ pc' = "encrypted"
    /\ UNCHANGED retVal
    /\ UNCHANGED codecFrame

\* String decrypted = decryptSecret(encrypted)
TestDecrypt(fill) ==
    /\ pc = "encrypted"
    /\ retVal' = decryptSecret(platform, derivedAESKey, rawValue, fill)
    /\ pc' = "decrypted"
    /\ UNCHANGED << keyInitialized, derivedAESKey, rawValue,
                    hardwareCryptoSuccess >>
    /\ UNCHANGED codecFrame

CodecNext ==
    \/ \E iv \in IVs, eccOk \in EccOutcomes(platform, keyInitialized),
          fill \in StackFills(platform) : TestEncrypt(iv, eccOk, fill)
    \/ \E fill \in StackFills(platform) : TestDecrypt(fill)

CodecSpec == CodecInit /\ [][CodecNext]_vars

----------------------------------------------------------------------------
(* The Base64 helpers of the SAMD build on their own *)

\* the byte values the sequences are made of: no bit set, every bit set,
\* and a letter
DataBytes == {0, 255, 97}

\* the byte sequences handed to base64_encode
DataSequences ==
    UNION {[1..n -> DataBytes] : n \in 0..MaxDataLen}

Base64Init ==
    /\ platform = "SAMD"
    /\ keyInitialized = FALSE
    /\ derivedAESKey = ZeroKey
    /\ param = [key |-> "dvc_id", mandatory |-> FALSE, isSecret |-> TRUE,
                isConfigurable |-> FALSE]
    /\ prefs = [k \in Keys |-> Absent]
    /\ pc = "data"
    /\ value \in DataSequences
    /\ rawValue = EmptyStr
    /\ retVal = EmptyStr
    /\ defaultValue = EmptyStr
    /\ force = FALSE
    /\ migrationNeeded = FALSE
    /\ argDefault = EmptyStr
    /\ argForce = FALSE
    /\ entryAtCall = Absent
    /\ classified = EmptyStr
    /\ prompts = 0
    /\ lastLine = EmptyStr
    /\ putCalls = 0
    /\ flashWrites = 0
    /\ callNo = 0
    /\ entryPlain = NoPlain
    /\ plainAtCall = NoPlain
    /\ getCalls = 0
    /\ hardwareCryptoSuccess = FALSE
    /\ boots = 0
    /\ earlierKey = NoEarlierKey
    /\ peer = PeerNotBooted
    /\ serialIn = EmptyStr
    /\ line = EmptyStr
    /\ consumed = EmptyStr
    /\ NamespaceOpened

\* String out = base64_encode(data, len)
Base64Encode ==
    /\ pc = "data"
    /\ rawValue' = base64_encode(value)
    /\ pc' = "encoded"
    /\ UNCHANGED << keyInitialized, derivedAESKey, hardwareCryptoSuccess,
                    retVal >>
    /\ UNCHANGED codecFrame

\* size_t out_len = base64_decode(out, in, len): the out_len bytes written
Base64Decode ==
    /\ pc = "encoded"
    /\ retVal' = base64_decode(rawValue)
    /\ pc' = "decoded"
    /\ UNCHANGED << keyInitialized, derivedAESKey, hardwareCryptoSuccess,
                    rawValue >>
    /\ UNCHANGED codecFrame

Base64Next ==
    \/ Base64Encode
    \/ Base64Decode

Base64Spec == Base64Init /\ [][Base64Next]_vars

----------------------------------------------------------------------------
(* C10 *)

\* C10: for every string s, decryptSecret(encryptSecret(s)) = s under the
\* same derived key, on the ESP32 build and on the SAMD build.
C10_RoundTrip ==
    pc = "decrypted" => retVal = value

\* C10 on the ESP32 build alone
C10_OnESP32 == platform = "ESP32" => C10_RoundTrip

----------------------------------------------------------------------------
(* sys_crypto.h on its own, across restarts of the device and next to
   another board that runs the same build *)

\* the strings handed to encryptSecret
CryptoPlaintexts == {StoredValue, Plaintext(BLOCK)}

\* the identity sources of the other board
PeerSerialNumber == <<1, 35, 119, 136, 153, 170, 187, 204, 238>>
PeerEfuseMac == <<36, 10, 196, 101, 67, 33, 0, 0>>

\* the identity deriveHardwareKey hashes on the other board
PeerIdentity(plat, eccOk) ==
    IF plat = "SAMD" /\ eccOk THEN PeerSerialNumber
    ELSE IF plat = "ESP32" THEN PeerEfuseMac
    ELSE GenericChipID

\* the digest deriveHardwareKey computes on the other board
PeerHardwareKey ==
    [plat \in Platforms, eccOk \in BOOLEAN |->
        Sha256(PeerIdentity(plat, eccOk) \o HAIoT_SALT)]

\* Base64 of a 40-byte payload: an IV and one and a half blocks
OddLengthPayload == mbedtls_base64_encode([i \in 1..40 |-> i])

\* a packet under the device key whose plaintext bytes are 'a', NUL, 'b'
NulPacket(plat) ==
    mbedtls_base64_encode(
        IV1 \o CbcEncrypt(DeviceKey(plat), IV1, Pkcs7(<<97, 0, 98>>)))

\* the payload of the s1: entry in the store, if there is one
StoredPayloads(store) ==
    IF store["dvc_id"].present
    THEN {substring(store["dvc_id"].val, Len(HEADER_SECRET_V1))}
    ELSE {}

\* the strings handed to decryptSecret
DecryptInputs(plat, store) ==
    StoredPayloads(store)
    \cup {TruncatedPayload, MalformedPayload, BadPaddingPayload(plat),
          OddLengthPayload, NulPacket(plat)}

CryptoInit ==
    /\ platform \in Platforms
    /\ keyInitialized = FALSE
    /\ derivedAESKey = ZeroKey
    /\ hardwareCryptoSuccess = FALSE
    /\ param = [key |-> "dvc_id", mandatory |-> FALSE, isSecret |-> TRUE,
                isConfigurable |-> FALSE]
    /\ prefs = [k \in Keys |-> Absent]
    /\ pc = "booted"
    /\ value = EmptyStr
    /\ rawValue = EmptyStr
    /\ retVal = EmptyStr
    /\ defaultValue = EmptyStr
    /\ force = FALSE
    /\ migrationNeeded = FALSE
    /\ argDefault = EmptyStr
    /\ argForce = FALSE
    /\ entryAtCall = Absent
    /\ classified = EmptyStr
    /\ prompts = 0
    /\ lastLine = EmptyStr
    /\ putCalls = 0
    /\ flashWrites = 0
    /\ callNo = 0
    /\ entryPlain = NoPlain
    /\ plainAtCall = NoPlain
    /\ getCalls = 0
    /\ boots = 0
    /\ earlierKey = NoEarlierKey
    /\ peer = PeerNotBooted
    /\ serialIn = EmptyStr
    /\ line = EmptyStr
    /\ consumed = EmptyStr
    /\ NamespaceOpened

\* what the calls into sys_crypto.h leave alone
cryptoFrame ==
    << platform, param, defaultValue, force, migrationNeeded, argDefault,
       argForce, entryAtCall, classified, prompts, lastLine, putCalls,
       flashWrites, callNo, plainAtCall, getCalls, serialIn, line,
       consumed, step, doReconfigure, mqttBrokerAddress, prefsStarted,
       prefsName, nvs, nsGets, nsPuts, config >>

\* deriveHardwareKey() called on its own, as setupConfig does before it
\* loads the secrets
Derive(eccOk) ==
    /\ derivedAESKey' =
          deriveHardwareKey(platform, keyInitialized, derivedAESKey, eccOk)
    /\ hardwareCryptoSuccess' =
          deriveHardwareCryptoSuccess(platform, keyInitialized,
              hardwareCryptoSuccess, eccOk)
    /\ keyInitialized' = TRUE
    /\ pc' = "derived"
    /\ value' = EmptyStr
    /\ rawValue' = EmptyStr
    /\ retVal' = EmptyStr
    /\ UNCHANGED << prefs, entryPlain >>
    /\ UNCHANGED << cryptoFrame, restartVars >>

\* encryptSecret(s), and the caller saves the packet under the s1: tag as
\* loadConfig does
Encrypt(s, iv, eccOk, fill) ==
    /\ LET key == deriveHardwareKey(platform, keyInitialized, derivedAESKey,
                                    eccOk)
           packet == IF deriveHardwareKeyReturns(platform, keyInitialized,
                                                 eccOk)
                     THEN encryptSecret(platform, key, s, iv, fill)
                     ELSE s
       IN /\ derivedAESKey' = key
          /\ retVal' = packet
          /\ prefs' = putString(prefs, "dvc_id", HEADER_SECRET_V1 \o packet)
    /\ hardwareCryptoSuccess' =
          deriveHardwareCryptoSuccess(platform, keyInitialized,
              hardwareCryptoSuccess, eccOk)
    /\ keyInitialized' = TRUE
    /\ value' = s
    /\ entryPlain' = PlainOf(s)
    /\ pc' = "encrypted"
    /\ rawValue' = EmptyStr
    /\ UNCHANGED << cryptoFrame, restartVars >>

\* decryptSecret(base64Data)
Decrypt(base64Data, eccOk, fill) ==
    /\ LET key == deriveHardwareKey(platform, keyInitialized, derivedAESKey,
                                    eccOk)
       IN /\ derivedAESKey' = key
          /\ retVal' = IF deriveHardwareKeyReturns(platform, keyInitialized,
                                                   eccOk)
                       THEN decryptSecret(platform, key, base64Data, fill)
                       ELSE base64Data
    /\ hardwareCryptoSuccess' =
          deriveHardwareCryptoSuccess(platform, keyInitialized,
              hardwareCryptoSuccess, eccOk)
    /\ keyInitialized' = TRUE
    /\ rawValue' = base64Data
    /\ pc' = "decrypted"
    /\ value' = EmptyStr
    /\ UNCHANGED << prefs, entryPlain >>
    /\ UNCHANGED << cryptoFrame, restartVars >>

\* the device restarts: static storage starts over, the store stays
Reboot ==
    /\ boots < MaxBoots
    /\ boots' = boots + 1
    /\ earlierKey' =
          IF keyInitialized
          THEN [known |-> TRUE, key |-> derivedAESKey,
                hw |-> hardwareCryptoSuccess]
          ELSE earlierKey
    /\ keyInitialized' = FALSE
    /\ derivedAESKey' = ZeroKey
    /\ hardwareCryptoSuccess' = FALSE
    /\ pc' = "booted"
    /\ value' = EmptyStr
    /\ rawValue' = EmptyStr
    /\ retVal' = EmptyStr
    /\ UNCHANGED << prefs, entryPlain, peer, cryptoFrame >>

\* deriveHardwareKey() runs on the other board
PeerDerive(eccOk) ==
    /\ peer' = [keyInitialized |-> TRUE,
                derivedAESKey |->
                    IF peer.keyInitialized THEN peer.derivedAESKey
                    ELSE PeerHardwareKey[platform, eccOk]]
    /\ UNCHANGED << keyInitialized, derivedAESKey, hardwareCryptoSuccess,
                    prefs, entryPlain, value, rawValue, retVal, pc, boots,
                    earlierKey, cryptoFrame >>

CryptoNext ==
    \/ \E eccOk \in EccOutcomes(platform, keyInitialized) : Derive(eccOk)
    \/ \E s \in CryptoPlaintexts, iv \in IVs,
          eccOk \in EccOutcomes(platform, keyInitialized),
          fill \in StackFills(platform) : Encrypt(s, iv, eccOk, fill)
    \/ \E d \in DecryptInputs(platform, prefs),
          eccOk \in EccOutcomes(platform, keyInitialized),
          fill \in StackFills(platform) : Decrypt(d, eccOk, fill)
    \/ Reboot
    \/ \E eccOk \in EccOutcomes(platform, peer.keyInitialized) :
          PeerDerive(eccOk)

CryptoSpec == CryptoInit /\ [][CryptoNext]_vars

----------------------------------------------------------------------------
(* every way the program gets at derivedAESKey: the public functions of
   sys_crypto.h called in any order by a sketch, or setupConfig *)

\* where a sketch that calls sys_crypto.h directly stands
CryptoPcs == {"booted", "derived", "encrypted", "decrypted"}

KeyUseInit == CryptoInit \/ SetupInit

KeyUseNext ==
    \/ pc \in CryptoPcs /\ CryptoNext
    \/ SetupNext

KeyUseSpec == KeyUseInit /\ [][KeyUseNext]_vars

----------------------------------------------------------------------------
(* sys_serial_utils.h on its own: promptAndReadLine and readLine, one
   character of the serial port at a time *)

\* most characters the operator has typed that are still in the receive
\* buffer or were read by the running call
MaxTyped == 4

\* what the operator's terminal sends
SerialChars == {CR, LF, 97, 98}

SerialInit ==
    /\ platform \in Platforms
    /\ keyInitialized = FALSE
    /\ derivedAESKey = ZeroKey
    /\ hardwareCryptoSuccess = FALSE
    /\ param = [key |-> "dvc_id", mandatory |-> FALSE, isSecret |-> TRUE,
                isConfigurable |-> FALSE]
    /\ prefs = [k \in Keys |-> Absent]
    /\ pc = "idle"
    /\ value = EmptyStr
    /\ rawValue = EmptyStr
    /\ retVal = EmptyStr
    /\ defaultValue = EmptyStr
    /\ force = FALSE
    /\ migrationNeeded = FALSE
    /\ argDefault = EmptyStr
    /\ argForce = FALSE
    /\ entryAtCall = Absent
    /\ classified = EmptyStr
    /\ prompts = 0
    /\ lastLine = EmptyStr
    /\ putCalls = 0
    /\ flashWrites = 0
    /\ callNo = 0
    /\ entryPlain = NoPlain
    /\ plainAtCall = NoPlain
    /\ getCalls = 0
    /\ boots = 0
    /\ earlierKey = NoEarlierKey
    /\ peer = PeerNotBooted
    /\ serialIn = EmptyStr
    /\ line = EmptyStr
    /\ consumed = EmptyStr
    /\ NamespaceOpened

\* what the serial port and promptAndReadLine leave alone
serialFrame ==
    << platform, keyInitialized, derivedAESKey, prefs, param, rawValue,
       value, force, migrationNeeded, argDefault, argForce, entryAtCall,
       classified, prompts, lastLine, putCalls, flashWrites, callNo,
       entryPlain, plainAtCall, getCalls, hardwareCryptoSuccess, boots,
       earlierKey, peer, step, doReconfigure, mqttBrokerAddress,
       prefsStarted, prefsName, nvs, nsGets, nsPuts, config >>

\* the operator's terminal sends one more character, at any time
OperatorTypes(c) ==
    /\ Len(serialIn) + Len(consumed) < MaxTyped
    /\ serialIn' = Append(serialIn, c)
    /\ UNCHANGED << pc, defaultValue, retVal, line, consumed >>
    /\ UNCHANGED serialFrame

\* promptAndReadLine(prompt, dflt) is called: the prompt is printed and
\* readLine starts with an empty line
PromptStart(dflt) ==
    /\ pc = "idle"
    /\ pc' = "reading"
    /\ defaultValue' = dflt
    /\ line' = EmptyStr
    /\ consumed' = EmptyStr
    /\ retVal' = EmptyStr
    /\ UNCHANGED serialIn
    /\ UNCHANGED serialFrame

\* one round of the readLine loop with Serial.available() true; on '\n'
\* readLine returns and promptAndReadLine returns after it
ReadChar ==
    /\ pc = "reading"
    /\ Len(serialIn) > 0
    /\ LET c == Head(serialIn) IN
          /\ serialIn' = Tail(serialIn)
          /\ consumed' = Append(consumed, c)
          /\ IF c = LF
             THEN /\ pc' = "done"
                  /\ retVal' = promptAndReadLineResult(line, defaultValue)
                  /\ UNCHANGED line
             ELSE /\ line' = readLineStep(line, c)
                  /\ UNCHANGED << pc, retVal >>
    /\ UNCHANGED defaultValue
    /\ UNCHANGED serialFrame

\* the caller goes on with the returned string
PromptReturns ==
    /\ pc = "done"
    /\ pc' = "idle"
    /\ UNCHANGED << defaultValue, retVal, serialIn, line, consumed >>
    /\ UNCHANGED serialFrame

SerialNext ==
    \/ \E c \in SerialChars : OperatorTypes(c)
    \/ \E dflt \in Defaults : PromptStart(dflt)
    \/ ReadChar
    \/ PromptReturns

SerialSpec == SerialInit /\ [][SerialNext]_vars

----------------------------------------------------------------------------
(* C11 *)

\* the last decryptSecret call was given the payload of the stored entry
DecryptedStoredEntry ==
    /\ pc = "decrypted"
    /\ entryPlain.known
    /\ rawValue \in StoredPayloads(prefs)

\* the key of this boot is the key of the boot before it
C11_KeyStableAcrossBoots ==
    (keyInitialized /\ earlierKey.known) => derivedAESKey = earlierKey.key

\* C11: for one device deriveHardwareKey produces the same key at every
\* boot, also at boots where the secure element does not answer and the
\* fallback identity is used; so an s1: entry written at one boot decrypts
\* to the same plaintext at every later boot.
C11_SameKeyEveryBoot ==
    /\ C11_KeyStableAcrossBoots
    /\ DecryptedStoredEntry => retVal = entryPlain.val

\* C11 on the ESP32 build alone
C11_OnESP32 == platform = "ESP32" => C11_SameKeyEveryBoot

----------------------------------------------------------------------------
(* C12 *)

\* the key deriveHardwareKey makes from the fixed chip ID of the generic
\* fallback
PlaceholderKey == Sha256(GenericChipID \o HAIoT_SALT)

\* two derivations of this device from the same identity source give the
\* same key
C12_SameSourceSameKey ==
    (keyInitialized /\ earlierKey.known
        /\ earlierKey.hw = hardwareCryptoSuccess)
    => derivedAESKey = earlierKey.key

\* C12: two derivations on the same identity source yield identical keys,
\* and two devices with different hardware identities derive different
\* keys, on every path of deriveHardwareKey, the fallback path included.
C12_KeysFollowIdentity ==
    /\ C12_SameSourceSameKey
    /\ (keyInitialized /\ peer.keyInitialized)
         => derivedAESKey # peer.derivedAESKey

\* C12 whenever at least one of the two devices is off the generic fallback
C12_OffGenericFallback ==
    (derivedAESKey # PlaceholderKey \/ peer.derivedAESKey # PlaceholderKey)
    => C12_KeysFollowIdentity

\* C12 on the ESP32 build alone
C12_OnESP32 == platform = "ESP32" => C12_KeysFollowIdentity

----------------------------------------------------------------------------
(* C13 *)

\* neither the secure element nor a platform identifier gave an identity:
\* the SAMD build reads no platform identifier
NoIdentitySource == platform = "SAMD" /\ ~hardwareCryptoSuccess

\* C13: when neither the secure-element serial number nor a platform unique
\* identifier is available deriveHardwareKey reports no success and the
\* process halts: no key is set up, and nothing is ever encrypted or
\* decrypted with an all-zero, unhashed or fixed-placeholder key.
C13_NoKeyWithoutIdentity ==
    /\ NoIdentitySource
         => (~keyInitialized /\ pc \notin {"encrypted", "decrypted"})
    /\ pc \in {"encrypted", "decrypted"}
         => derivedAESKey \notin {ZeroKey, PlaceholderKey}

\* C13 on the ESP32 build alone
C13_OnESP32 == platform = "ESP32" => C13_NoKeyWithoutIdentity

----------------------------------------------------------------------------
(* C16 *)

\* C16: encryptSecret rejects a plaintext longer than the configured
\* maximum of 4096 bytes: what it returns for such a plaintext is no packet
\* built from buffers as long as the plaintext.
C16_OversizeRejected ==
    (pc \in {"encrypted", "decrypted"} /\ Len(value) > MAX_PLAINTEXT_LEN)
    => Len(rawValue) <= Len(value)

----------------------------------------------------------------------------
(* C17 *)

\* what the build's Base64 decoder makes of base64Data
PacketBytes(plat, base64Data) ==
    IF plat = "ESP32" THEN mbedtls_base64_decode(base64Data)
    ELSE LET bytes == base64_decode(base64Data)
         IN [ok |-> Len(bytes) # 0, bytes |-> bytes]

\* the CBC decryption of a packet of at least 32 bytes under the device key
PacketPlain(bytes) ==
    CbcDecrypt(derivedAESKey, SubSeq(bytes, 1, BLOCK),
               SubSeq(bytes, BLOCK + 1, Len(bytes)))

\* C17: decryptSecret strips no padding from an invalid packet: when Base64
\* decoding fails, the payload is shorter than 32 bytes or the final pad
\* byte is 0 or more than 16, it returns its input unchanged; only
\* otherwise does it return the decrypted bytes less exactly pad-value
\* trailing bytes.
C17_StripsOnlyValidPadding ==
    pc = "decrypted"
    => LET dec == PacketBytes(platform, rawValue)
           plain == PacketPlain(dec.bytes)
           pad == plain[Len(plain)]
           invalid == \/ ~dec.ok
                      \/ Len(dec.bytes) < BLOCK + BLOCK
                      \/ pad = 0
                      \/ pad > BLOCK
       IN /\ invalid => retVal = rawValue
          /\ retVal # rawValue
               => (~invalid
                   /\ retVal = SubSeq(plain, 1, Len(plain) - pad))

\* C17 on the ESP32 build, for packets whose plaintext holds no NUL
C17_OnESP32NoNul ==
    (platform = "ESP32" /\ rawValue # NulPacket(platform))
    => C17_StripsOnlyValidPadding

----------------------------------------------------------------------------
(* C18 *)

\* the characters of the line read: what Serial.read() returned before the
\* newline, carriage returns dropped
C18_LineRead ==
    SelectSeq(SubSeq(consumed, 1, Len(consumed) - 1), LAMBDA c : c # CR)

\* C18: promptAndReadLine blocks until a newline arrives: while it runs no
\* newline has been read, and it returns on the step that reads the first
\* newline; it returns the default value when the line read, carriage
\* returns dropped, is empty, and otherwise exactly the line read.
C18_ReturnsLineOrDefault ==
    /\ [](pc = "reading" => \A i \in 1..Len(consumed) : consumed[i] # LF)
    /\ [](pc = "done"
           => /\ Len(consumed) > 0
              /\ consumed[Len(consumed)] = LF
              /\ \A i \in 1..(Len(consumed) - 1) : consumed[i] # LF
              /\ retVal = IF C18_LineRead = EmptyStr
                          THEN defaultValue ELSE C18_LineRead)
    /\ [][ (pc = "reading" /\ pc' # "reading")
           => (pc' = "done" /\ Len(serialIn) > 0 /\ Head(serialIn) = LF)
        ]_vars

\* the operator sent only a carriage return and a newline and the call
\* returned the default
C18_Witness ==
    /\ pc = "done"
    /\ consumed = <<CR, LF>>
    /\ defaultValue = BuiltinDefault
    /\ retVal = BuiltinDefault

\* the character-wise run agrees with the whole-line form used by the
\* prompt loop of loadConfig
C18_AgreesWithWholeLine ==
    pc = "done"
    => retVal = promptAndReadLine(SubSeq(consumed, 1, Len(consumed) - 1),
                                  defaultValue)

----------------------------------------------------------------------------
(* C19 *)

\* C19: once deriveHardwareKey has returned, keyInitialized stays true and
\* derivedAESKey stays the same for the rest of the process, whatever calls
\* of deriveHardwareKey, encryptSecret and decryptSecret follow.
C19_KeyCached ==
    [][ (keyInitialized /\ boots' = boots)
        => (keyInitialized' /\ derivedAESKey' = derivedAESKey) ]_vars

\* in the first process a secret was encrypted under the key of the secure
\* element and a later decryptSecret call has run with the same key
C19_Witness ==
    /\ boots = 0
    /\ pc = "decrypted"
    /\ entryPlain.known
    /\ platform = "SAMD"
    /\ hardwareCryptoSuccess
    /\ keyInitialized
    /\ derivedAESKey = HardwareKey["SAMD", TRUE]

----------------------------------------------------------------------------
(* C14 *)

\* the call has entered its prompt loop
PromptLoopEntered == pc = "prompt" \/ prompts > 0

\* C14: when the entry decodes to a non-empty value v, loadConfig(param,
\* default, force) enters the prompt loop if and only if force is requested
\* and param.isConfigurable is true, and then v is the default the prompt
\* offers; force alone never makes a non-configurable parameter prompt.
C14_PromptIffForcedConfigurable ==
    (pc \in {"prompt", "migrate", "done"} /\ entryAtCall.present
        /\ classified # EmptyStr)
    => /\ PromptLoopEntered <=> (argForce /\ param.isConfigurable)
       /\ PromptLoopEntered => defaultValue = classified

\* a forced, configurable call stands at its first prompt with the stored
\* value as the default
C14_Witness ==
    /\ pc = "prompt"
    /\ prompts = 0
    /\ entryAtCall = Stored(HEADER_PLAIN_V1 \o StoredValue)
    /\ classified = StoredValue
    /\ argForce
    /\ param.isConfigurable
    /\ defaultValue = StoredValue

----------------------------------------------------------------------------
(* C15 *)

\* C15: a loadConfig call for a parameter with mandatory = false issues at
\* most one prompt, and returns what that prompt gave (the default on an
\* empty line, possibly the empty string) without asking again.
C15_OptionalPromptedAtMostOnce ==
    ~param.mandatory
    => /\ prompts <= 1
       /\ pc = "prompt" => prompts = 0
       /\ (pc = "done" /\ prompts = 1)
            => retVal = IF lastLine = EmptyStr THEN defaultValue ELSE lastLine

\* an optional parameter was asked once, the operator pressed enter, and the
\* empty string came back
C15_Witness ==
    /\ ~param.mandatory
    /\ pc = "done"
    /\ prompts = 1
    /\ lastLine = EmptyStr
    /\ defaultValue = EmptyStr
    /\ retVal = EmptyStr
    /\ putCalls = 1

----------------------------------------------------------------------------
(* C20 *)

\* C20: within one loadConfig call the steps come in the order read,
\* classify, force-clear, prompt loop, migrate-write, return: exactly one
\* backend read, made before every prompt; every prompt before the backend
\* write; at most one backend write per call.
C20_StepOrder ==
    /\ [](pc \in {"prompt", "migrate", "done"} => getCalls = 1)
    /\ [](putCalls <= 1)
    /\ [](pc = "prompt" => putCalls = 0)
    /\ [][ /\ getCalls' > getCalls
              => (pc = "idle" /\ prompts' = 0 /\ putCalls' = 0)
           /\ pc = "prompt"
              => (prefs' = prefs /\ getCalls' = getCalls
                  /\ pc' \in {"prompt", "migrate"})
           /\ putCalls' > putCalls => (pc = "migrate" /\ pc' = "done")
           /\ prefs' # prefs => putCalls' = putCalls + 1
           /\ pc' = "done" => (pc = "migrate" /\ prompts' = prompts) ]_vars

\* a call that read once, prompted twice and then wrote once has returned
C20_Witness ==
    /\ pc = "done"
    /\ getCalls = 1
    /\ prompts = 2
    /\ putCalls = 1
    /\ ParamEntry # entryAtCall

----------------------------------------------------------------------------
(* C21 *)

C21_IdenticalWriteKeepsEntry ==
    (pc = "done" /\ putCalls > 0 /\ flashWrites = 0)
    => ParamEntry = entryAtCall

----------------------------------------------------------------------------
(* C22 *)

\* C22 as claimed: when the entry is absent and the load resolves to the
\* caller's built-in default without operator input, no backend write is
\* made; for an absent entry a write happens only if a non-default value was
\* just supplied.
C22_AbsentDefaultNotWritten ==
    (pc = "done" /\ ~entryAtCall.present)
    => /\ prompts = 0 => putCalls = 0
       /\ putCalls > 0 => (prompts > 0 /\ retVal # argDefault)

\* C22 as amended: a load of an absent entry makes exactly one backend
\* write; when it resolves to the caller's built-in default without operator
\* input, that default is not empty and it is the default that is stored,
\* under the tag that goes with the secret flag.
C22_AbsentAlwaysWritten ==
    (pc = "done" /\ ~entryAtCall.present)
    => /\ putCalls = 1
       /\ ParamEntry.present
       /\ prompts = 0
            => /\ retVal = argDefault
               /\ argDefault # EmptyStr
               /\ TagMatches(ParamEntry, param.isSecret)
               /\ ~param.isSecret
                    => ParamEntry = Stored(HEADER_PLAIN_V1 \o argDefault)

\* an absent entry was loaded without force with a built-in default, no
\* prompt was issued and the default was written
C22_Witness ==
    /\ pc = "done"
    /\ ~entryAtCall.present
    /\ ~argForce
    /\ prompts = 0
    /\ argDefault = BuiltinDefault
    /\ retVal = BuiltinDefault
    /\ putCalls = 1
    /\ ParamEntry = Stored(HEADER_PLAIN_V1 \o BuiltinDefault)

----------------------------------------------------------------------------
(* C23 *)

\* C23: for every plaintext length n encryptSecret pads to
\* 16 * (n div 16 + 1) bytes, every appended byte equals the number of
\* appended bytes, that number lies in 1..16, and a plaintext whose length
\* is a multiple of 16, 0 included, gets a full block of 16 pad bytes; on
\* the ESP32 build the packet returned is the encryption of that buffer.
C23_Pkcs7Padding ==
    pc \in {"encrypted", "decrypted"}
    => LET n == Len(value)
           input == Pkcs7(value)
           padding == Len(input) - n
       IN /\ Len(input) = 16 * ((n \div 16) + 1)
          /\ SubSeq(input, 1, n) = value
          /\ \A i \in (n + 1)..Len(input) : input[i] = padding
          /\ padding \in 1..16
          /\ n % 16 = 0 => padding = 16
          /\ platform = "ESP32"
               => PacketPlain(mbedtls_base64_decode(rawValue).bytes) = input

\* a plaintext of two whole blocks was encrypted
C23_Witness ==
    /\ pc = "encrypted"
    /\ Len(value) = 32
    /\ platform = "ESP32"
    /\ Len(mbedtls_base64_decode(rawValue).bytes) = 64

----------------------------------------------------------------------------
(* C24 *)

\* C24: every string encryptSecret produces for a plaintext of length n
\* decodes, with the Base64 decoder decryptSecret uses on the same build, to
\* exactly 16 + 16 * (n div 16 + 1) bytes: the IV and a whole number, at
\* least one, of ciphertext blocks.
C24_PacketLength ==
    pc \in {"encrypted", "decrypted"}
    => LET dec == PacketBytes(platform, rawValue)
       IN /\ dec.ok
          /\ Len(dec.bytes) = 16 + 16 * ((Len(value) \div 16) + 1)

\* C24 on the ESP32 build alone
C24_OnESP32 == platform = "ESP32" => C24_PacketLength

\* C24 whenever IV and ciphertext together are a multiple of three bytes
C24_WholeGroups ==
    (16 + paddedLen(Len(value))) % 3 = 0 => C24_PacketLength

----------------------------------------------------------------------------
(* C29 *)

\* the step on which a loadConfig call without force returns, after an
\* earlier call for the same descriptor returned a value that is not empty
SecondLoadReturns ==
    /\ pc = "migrate"
    /\ pc' = "done"
    /\ callNo >= 2
    /\ ~argForce
    /\ retVal # EmptyStr

\* C29: after a loadConfig call has returned a non-empty value v, a
\* loadConfig call for the same descriptor with force = false that follows
\* it immediately returns v, issues no prompt and makes no backend write,
\* whatever the entry, the default, the force flag and the operator's input
\* of the first call were.
C29_RepeatedLoadIsQuiet ==
    [][ SecondLoadReturns
        => (retVal' = retVal /\ prompts = 0 /\ putCalls' = 0) ]_vars

\* C29 on the ESP32 build alone
C29_OnESP32 ==
    [][ (platform = "ESP32" /\ SecondLoadReturns)
        => (retVal' = retVal /\ prompts = 0 /\ putCalls' = 0) ]_vars

\* C29 for parameters that are not secret, on both builds
C29_NotSecret ==
    [][ (~param.isSecret /\ SecondLoadReturns)
        => (retVal' = retVal /\ prompts = 0 /\ putCalls' = 0) ]_vars

----------------------------------------------------------------------------
(* C30 *)

\* C30: under a forced reconfiguration of a parameter whose decoded stored
\* value v is not empty exactly one prompt is issued and the load does not
\* return the empty string; if the operator enters an empty line the load
\* returns v and the entry still decodes to v.
C30_ForcedKeepsValue ==
    (pc = "done" /\ force /\ entryAtCall.present /\ classified # EmptyStr)
    => /\ prompts = 1
       /\ retVal # EmptyStr
       /\ lastLine = EmptyStr
            => (retVal = classified /\ DecodesTo(ParamEntry, classified))

\* C30 without the statement on the entry, on both builds
C30_OnePromptReturnsValue ==
    (pc = "done" /\ force /\ entryAtCall.present /\ classified # EmptyStr)
    => /\ prompts = 1
       /\ retVal # EmptyStr
       /\ lastLine = EmptyStr => retVal = classified

\* C30 on the ESP32 build alone
C30_OnESP32 == platform = "ESP32" => C30_ForcedKeepsValue

\* C30 for parameters that are not secret, on both builds
C30_NotSecret == ~param.isSecret => C30_ForcedKeepsValue

----------------------------------------------------------------------------
(* C26 *)

\* the entries other than the one being loaded are the ones the device
\* started with
OtherEntriesKept ==
    \A k \in Keys \ {param.key} :
        prefs[k] = Stored(HEADER_PLAIN_V1 \o BuiltinDefault)

\* C26: if the device resets at any point of a loadConfig call before its
\* putString, every backend entry equals its value from before the call;
\* in particular a forced reconfiguration abandoned at the prompt leaves
\* the stored entry as it was, and the next boot reads it.
C26_ResetBeforeWriteKeepsEntries ==
    /\ []( (pc \in {"prompt", "migrate", "reset"} /\ putCalls = 0)
           => (ParamEntry = entryAtCall /\ OtherEntriesKept) )
    /\ [][ pc = "reset"
           => (prefs' = prefs /\ entryAtCall' = prefs[param.key]) ]_vars
    /\ [][ (pc = "idle" /\ pc' # "idle" /\ pc' # "reset")
           => (rawValue' = getString(prefs, param.key) /\ prefs' = prefs)
        ]_vars

\* the device lost power while a forced reconfiguration of a stored value
\* was waiting at its first prompt
C26_Witness ==
    /\ pc = "reset"
    /\ force
    /\ prompts = 0
    /\ value = EmptyStr
    /\ putCalls = 0
    /\ classified = StoredValue
    /\ entryAtCall = Stored(HEADER_PLAIN_V1 \o StoredValue)
    /\ ParamEntry = entryAtCall

----------------------------------------------------------------------------
\* C28: setupConfig never completes with mqttBrokerAddress equal to the
\* unconfigured value 0.0.0.0: a broker value that fails to parse or that
\* is 0.0.0.0 is rejected by the retry loop, which calls loadConfig again
BrokerRejected(ret) ==
    \/ ~fromString(ret).ok
    \/ fromString(ret).bytes = UnconfiguredAddress

C28_BrokerNeverUnconfigured ==
    /\ [](step = ReturnedStep => mqttBrokerAddress # UnconfiguredAddress)
    /\ [][(step = BrokerStep /\ pc = "done" /\ pc' = "idle"
            /\ BrokerRejected(retVal))
           => step' = BrokerStep]_vars

\* what holds of the loop: a text that is no dotted quad is rejected, and
\* setupConfig goes on with the address the returned text spells
C28_UnparseableRejected ==
    [][(step = BrokerStep /\ pc = "done" /\ pc' = "idle")
       => IF fromString(retVal).ok
          THEN step' = BrokerStep + 1
               /\ toString(mqttBrokerAddress') = retVal
          ELSE step' = BrokerStep]_vars

----------------------------------------------------------------------------
\* C25: during setupConfig every backend get/put happens while exactly one
\* namespace is open, the general parameters are accessed only under
\* "config" and the secrets only under "secrets", "config" is closed before
\* "secrets" is opened, each namespace sees a bounded number of get/put
\* calls, and both are closed when setupConfig returns

\* the namespace a parameter belongs to
NamespaceOf(key) == IF key \in SecretKeys THEN "secrets" ELSE "config"

\* a loadConfig call of setupConfig has read the backend and not yet
\* handed its result over
InLoadCall == step \in LoadSteps /\ pc \in {"prompt", "migrate", "done"}

\* the accesses happen under the one open namespace, the right one; the
\* two namespaces are never open together; nothing is open at the return
NamespaceDiscipline ==
    /\ InLoadCall => prefsStarted /\ prefsName = NamespaceOf(param.key)
    /\ step \in {8, 9} => ~prefsStarted
    /\ step = ReturnedStep => ~prefsStarted

\* the broker loop goes round again although the call that just returned
\* asked the operator nothing and changed nothing: the next round finds
\* what this one found, and so does every round after it
IdleRetry ==
    /\ step = BrokerStep /\ pc = "done" /\ pc' = "idle"
    /\ step' = BrokerStep
    /\ prompts = 0 /\ flashWrites = 0
    /\ mqttBrokerAddress' = mqttBrokerAddress

C25_NamespaceTransactions ==
    /\ []NamespaceDiscipline
    /\ [][~IdleRetry]_vars

\* what holds: the discipline of opening and closing
C25_NamespaceDiscipline == NamespaceDiscipline

----------------------------------------------------------------------------
\* C27: encryptSecret and decryptSecret read derivedAESKey only in states
\* where keyInitialized is true, whatever the order of the calls to the
\* public functions; and in setupConfig deriveHardwareKey has completed
\* before the first secret is loaded from "secrets"

\* the step is a call of encryptSecret: by the sketch, or by step 2 of
\* loadConfig
EncryptStep ==
    \/ pc \in CryptoPcs /\ pc' = "encrypted"
    \/ pc = "migrate" /\ pc' = "done" /\ migrationNeeded
       /\ SaveEncrypts(param.isSecret, value)

\* the step is a call of decryptSecret: by the sketch, or by step 1 of
\* loadConfig
DecryptStep ==
    \/ pc \in CryptoPcs /\ pc' = "decrypted"
    \/ pc = "idle" /\ pc' \in {"prompt", "migrate"}
       /\ ClassifyDecrypts(rawValue')

\* the keys deriveHardwareKey can make on a build
DerivedKeys(plat) == {HardwareKey[plat, eccOk] : eccOk \in BOOLEAN}

C27_KeyReadOnlyWhenInitialized ==
    /\ [][(EncryptStep \/ DecryptStep)
           => keyInitialized' /\ derivedAESKey' \in DerivedKeys(platform)]_vars
    /\ []((step \in SecretLoadSteps \/ step = 9)
           => keyInitialized /\ derivedAESKey \in DerivedKeys(platform))

\* setupConfig has decrypted a stored secret, encrypted what the operator
\* typed for it and saved that under "secrets"
C27_Witness ==
    /\ step \in SecretLoadSteps /\ pc = "done" /\ putCalls = 1
    /\ prefsName = "secrets" /\ ClassifyDecrypts(rawValue)
    /\ SaveEncrypts(param.isSecret, value) /\ keyInitialized

----------------------------------------------------------------------------
(* C36 *)

\* the data length leaves a final group of one or two bytes
PartialGroup(d) == Len(d) % 3 # 0

\* C36: for every byte sequence d, lengths not divisible by 3 included,
\* base64_decode(base64_encode(d)) = d with the decoded length equal to the
\* length of d, and base64_encode ends the text of a final partial group
\* with '='
C36_Base64RoundTrip ==
    /\ pc = "decoded" => retVal = value /\ Len(retVal) = Len(value)
    /\ (pc \in {"encoded", "decoded"} /\ PartialGroup(value))
          => rawValue[Len(rawValue)] = EQUALS

\* C36 for data that is a whole number of three-byte groups
C36_WholeGroups ==
    (pc = "decoded" /\ ~PartialGroup(value)) => retVal = value

\* what the helpers do with a partial group: no '=' anywhere, four
\* characters for every group, and the data comes back followed by one zero
\* byte for every byte the last group lacks
C36_PartialGroupGrows ==
    /\ pc \in {"encoded", "decoded"}
          => /\ \A k \in 1..Len(rawValue) : rawValue[k] # EQUALS
             /\ Len(rawValue) = 4 * ((Len(value) + 2) \div 3)
    /\ pc = "decoded"
          => /\ Len(retVal) = 3 * ((Len(value) + 2) \div 3)
             /\ SubSeq(retVal, 1, Len(value)) = value
             /\ \A k \in (Len(value) + 1)..Len(retVal) : retVal[k] = 0

----------------------------------------------------------------------------
(* C35 *)

\* C35: deriveHardwareKey returns true on every call and on every platform
\* path, so encryptSecret and decryptSecret never leave by their early
\* return: what encryptSecret returns is the packet its body builds under
\* the derived key, never its plaintext argument, and what decryptSecret
\* returns is what its body computes
C35_DeriveAlwaysSucceeds ==
    /\ [](\A eccOk \in EccOutcomes(platform, keyInitialized) :
             deriveHardwareKeyReturns(platform, keyInitialized, eccOk))
    /\ [][pc' = "encrypted"
           => /\ retVal' # value'
              /\ \E iv \in IVs, fill \in StackFills(platform) :
                    retVal' = encryptSecret(platform, derivedAESKey',
                                            value', iv, fill)]_vars
    /\ [][pc' = "decrypted"
           => \E fill \in StackFills(platform) :
                 retVal' = decryptSecret(platform, derivedAESKey',
                                         rawValue', fill)]_vars

\* encryptSecret has run as the first call of a process on a SAMD board
\* whose secure element did not answer
C35_Witness ==
    /\ pc = "encrypted"
    /\ platform = "SAMD"
    /\ ~hardwareCryptoSuccess
    /\ derivedAESKey = HardwareKey["SAMD", FALSE]
    /\ retVal # value

----------------------------------------------------------------------------
(* C31 *)

\* the step is the putString call of loadConfig
PutStep == pc = "migrate" /\ pc' = "done" /\ putCalls' = putCalls + 1

\* the string under the key of the parameter after the step
Written == prefs'[param.key].val

\* C31: every string loadConfig writes is tagged: "s1:" followed by
\* encryptSecret(value) exactly when isSecret is true and value is not
\* empty, "p1:" followed by value otherwise; it never writes an untagged
\* string and never writes the non-empty plaintext of a secret
C31_WritesAreTagged ==
    [][PutStep
       => /\ prefs'[param.key].present
          /\ startsWith(Written, HEADER_SECRET_V1)
                \/ startsWith(Written, HEADER_PLAIN_V1)
          /\ IF param.isSecret /\ value # EmptyStr
             THEN /\ \E iv \in IVs, fill \in StackFills(platform) :
                        Written = HEADER_SECRET_V1
                                  \o encryptSecret(platform, derivedAESKey',
                                                   value, iv, fill)
                  /\ Written # value
                  /\ Written # HEADER_PLAIN_V1 \o value
                  /\ substring(Written, Len(HEADER_SECRET_V1)) # value
             ELSE Written = HEADER_PLAIN_V1 \o value]_vars

\* the operator's text for a secret that had a legacy entry has been saved
C31_Witness ==
    /\ pc = "done"
    /\ putCalls = 1
    /\ param.isSecret
    /\ entryAtCall = Stored(StoredValue)
    /\ retVal = TypedValue
    /\ startsWith(ParamEntry.val, HEADER_SECRET_V1)

----------------------------------------------------------------------------
(* C32 *)

\* what a namespace holds: the open one as the calls see it, a closed one
\* as it lies in flash
Effective(n) == IF prefsStarted /\ prefsName = n THEN prefs ELSE nvs[n]

\* the step belongs to a loadConfig call of setupConfig
LoadCallStep ==
    /\ step \in LoadSteps
    /\ \/ pc = "idle" /\ pc' \in {"prompt", "migrate"}
       \/ pc = "prompt"
       \/ pc = "migrate" /\ pc' = "done"

\* C32: a loadConfig call for key k reads and writes only the entry of k in
\* the open namespace: the entries of every other key and of the other
\* namespace are unchanged by the call, and no entry is ever deleted
C32_OnlyOwnEntryTouched ==
    /\ [][LoadCallStep
           => /\ \A n \in Namespaces, k \in Keys :
                    Effective(n)'[k] # Effective(n)[k]
                    => n = prefsName /\ k = param.key
              /\ (pc = "idle"
                  => rawValue' = getString(Effective(prefsName),
                                           param.key))]_vars
    /\ [][\A n \in Namespaces, k \in Keys :
             Effective(n)[k].present => Effective(n)'[k].present]_vars

\* the first secret has been written while the other secrets and the
\* general parameters have entries
C32_Witness ==
    /\ step = 10
    /\ pc = "done"
    /\ flashWrites = 1
    /\ prefsStarted /\ prefsName = "secrets"
    /\ prefs["s_wifi_pwd"].present
    /\ nvs["config"]["dvc_id"].present

----------------------------------------------------------------------------
(* C33 *)

\* the String fields of config whose parameter is mandatory
MandatoryStringKeys ==
    {SetupParams[i].key : i \in {j \in 1..Len(SetupParams) :
                                     SetupParams[j].mandatory}}
    \cap StringKeys

\* C33: whenever setupConfig returns, every mandatory field is set:
\* deviceID, timeZone, secretWiFiSSID, secretWiFiPassword, secretMqttUser
\* and secretMqttPassword are not empty, and mqttBrokerAddress holds the
\* address a successful fromString parsed
C33_MandatoryFieldsSet ==
    /\ [](step = ReturnedStep
            => \A k \in MandatoryStringKeys : config[k] # EmptyStr)
    /\ [][(step = BrokerStep /\ step' # BrokerStep)
           => /\ fromString(retVal).ok
              /\ mqttBrokerAddress' = fromString(retVal).bytes
              /\ step' = BrokerStep + 1]_vars
    /\ [][step > BrokerStep
           => mqttBrokerAddress' = mqttBrokerAddress]_vars

\* setupConfig has returned on a device that had nothing stored, the
\* operator having typed every value
C33_Witness ==
    /\ step = ReturnedStep
    /\ config["dvc_id"] = TypedValue
    /\ config["s_mqtt_pwd"] = TypedValue
    /\ mqttBrokerAddress = fromString(ValidAddress).bytes
    /\ nsPuts["secrets"] >= 4

----------------------------------------------------------------------------
(* C34 *)

\* C34: for every initial backend content and either reconfigure answer
\* setupConfig eventually returns, provided the operator answers every
\* prompt that is offered with a valid value that is not empty; the broker
\* loop never repeats forever without offering a prompt
C34_SetupReturns == <>(step = ReturnedStep)

\* the text stored for the broker does not parse
BrokerEntryUnparseable ==
    LET e == nvs["config"]["mqtt_broker_ip"] IN
    /\ e.present
    /\ ~fromString(substring(e.val, Len(HEADER_PLAIN_V1))).ok

\* setupConfig returns whenever the operator asked for reconfiguration or
\* the broker entry is absent or parses
C34_ReturnsUnlessBrokerUnparseable ==
    (step = 1 /\ (doReconfigure \/ ~BrokerEntryUnparseable))
    ~> (step = ReturnedStep)

====
